--------------------------- MODULE RollerRs485Proofs ---------------------------
(***************************************************************************)
(* Theorems about the kitchen's rollers on one serial line, for any number *)
(* of them, any time-out and any number of interrupts in a round of calls  *)
(* that is below it.                                                       *)
(***************************************************************************)
EXTENDS RollerRs485, DivisionLemmas, TLAPS

(***************************************************************************)
(* What holds between any two steps of main and the interrupt, and makes   *)
(* the two properties above hold.                                          *)
(***************************************************************************)
(* In a round of calls main is telling every roller the same command.      *)
Round == pc \in {"each", "set", "print"} /\ Concerned(1)
Called(r) == r < i \/ (r = i /\ pc \in {"set", "print"})
Told(r)   == r < i \/ (r = i /\ pc = "print")

MoveInv ==
  /\ pc \in {"set", "print"} => i <= ROLLER_COUNT /\ Concerned(1)
  /\ pc \in {"setup", "loop", "uptime", "text"} => busy = 0
  /\ \A r \in Rollers : state[r] # "Off" => timer[r] \in 1 .. Timeout

(* Outside of it the moving ones move the same way, and when one of them   *)
(* has stopped the others have no more than a round's interrupts to go.    *)
RestInv ==
  ~Round =>
    /\ \A r, q \in Rollers : state[q] # "Off" =>
         IF state[r] = "Off" THEN timer[q] <= HandlerTicks
         ELSE state[r] = state[q] /\ timer[q] <= timer[r] + HandlerTicks
    /\ told /\ said = "Stop" =>
         \A r \in Rollers : state[r] = "Off" \/ timer[r] <= HandlerTicks
    /\ told /\ said # "Stop" =>
         \A r \in Rollers : state[r] = said /\ age + timer[r] <= Timeout

(* In it a roller that has been called will not stop before the round is   *)
(* over, and when all have been called the line has said the command, if   *)
(* the last one got through.                                               *)
RoundInv ==
  Round =>
    /\ told /\ said # "Stop" => age < Timeout + busy
    /\ \A r \in Rollers :
         /\ cmd # "Stop" /\ Called(r) => timer[r] \in Timeout - busy .. Timeout
         /\ Told(r) => state[r] = (IF cmd = "Stop" THEN "Off" ELSE cmd)
    /\ i > ROLLER_COUNT /\ told =>
         said = cmd /\ (cmd # "Stop" => \A r \in Rollers : age + timer[r] <= Timeout)

KitchenInv == TypeOK /\ MoveInv /\ RestInv /\ RoundInv

-----------------------------------------------------------------------------
LEMMA Constants ==
  /\ ROLLER_COUNT \in Nat \ {0} /\ HandlerTicks \in Nat /\ ULongMax \in Nat
  /\ Timeout \in HandlerTicks + 1 .. ULongMax /\ Timeout \in Nat
  /\ 1 \in Rollers /\ Rollers \subseteq Nat
BY Rs485Assumption DEF Rollers

(* A message concerns every roller or none.                                *)
LEMMA SameTopic ==
  ASSUME NEW r \in Rollers
  PROVE  Concerned(r) <=> Concerned(1)
BY Rs485Assumption DEF Concerned

(* Types, the numbers apart from the names.                                *)
Counts ==
  /\ timer \in [Rollers -> 0 .. ULongMax] /\ i \in 1 .. ROLLER_COUNT + 1
  /\ busy \in 0 .. HandlerTicks /\ age \in 0 .. MaxAge

Names ==
  /\ state \in [Rollers -> {"Off", "Up", "Down"}]
  /\ pc \in {"setup", "loop", "uptime", "text", "each", "set", "print"}
  /\ topic \in Topics /\ cmd \in Command
  /\ link \in BOOLEAN /\ subscribed \subseteq Topics
  /\ torn \in BOOLEAN /\ said \in Command /\ told \in BOOLEAN

LEMMA Types == TypeOK <=> Counts /\ Names
BY DEF TypeOK, Counts, Names

(* The interrupt takes one from the timer of each moving roller; a roller  *)
(* that had one left is stopped.                                           *)
LEMMA TickMoves ==
  ASSUME Counts, Names, MoveInv, Tick, NEW r \in Rollers
  PROVE  /\ state[r] = "Off" => state'[r] = "Off" /\ timer'[r] = timer[r]
         /\ state[r] # "Off" /\ timer[r] = 1 => state'[r] = "Off" /\ timer'[r] = 0
         /\ state[r] # "Off" /\ timer[r] # 1 => state'[r] = state[r] /\ timer'[r] = timer[r] - 1
         /\ Expired(r) <=> state[r] # "Off" /\ timer[r] = 1
<1>1. state[r] # "Off" => Counted(r) = timer[r] - 1 /\ timer[r] \in Nat
  <2> SUFFICES ASSUME state[r] # "Off" PROVE Counted(r) = timer[r] - 1 /\ timer[r] \in Nat
    OBVIOUS
  <2>1. timer[r] \in 1 .. Timeout
    BY DEF MoveInv
  <2>2. ULongMax + 1 \in Nat \ {0} /\ timer[r] - 1 \in Nat /\ timer[r] - 1 < ULongMax + 1
    BY <2>1, Constants
  <2>3. (timer[r] - 1) % (ULongMax + 1) = timer[r] - 1
    BY <2>2, Small
  <2> QED
    BY <2>1, <2>3, Constants DEF Counted
<1>2. Expired(r) <=> state[r] # "Off" /\ timer[r] = 1
  BY <1>1 DEF Expired
<1>3. /\ state'[r] = IF Expired(r) THEN "Off" ELSE state[r]
      /\ timer'[r] = IF state[r] # "Off" THEN Counted(r) ELSE timer[r]
  BY DEF Tick
<1> QED
  BY <1>1, <1>2, <1>3

(* What an interrupt says: nothing, or that something has stopped, or      *)
(* nothing that gets through.                                              *)
LEMMA TickSays ==
  ASSUME Tick
  PROVE  \/ (\A r \in Rollers : ~Expired(r)) /\ UNCHANGED <<said, told>>
         \/ said' = "Stop" /\ told' = TRUE
         \/ told' = FALSE /\ said' = said
<1> DEFINE over == {r \in Rollers : Expired(r)}
<1>1. IF over = {} THEN UNCHANGED <<torn, said, told>> ELSE Stops(over)
  BY DEF Tick
<1> QED
  BY <1>1 DEF Stops

LEMMA TypeInit == Init => TypeOK
<1>1. Init => Counts
  BY Constants DEF Init, Counts, MaxAge
<1>2. Init => Names
  BY Rs485Assumption DEF Init, Names, Command
<1> QED
  BY <1>1, <1>2, Types

LEMMA TypeNext == TypeOK /\ MoveInv /\ [Next]_vars => TypeOK'
<1> SUFFICES ASSUME Counts, Names, MoveInv, [Next]_vars PROVE Counts' /\ Names'
  BY DEF TypeOK, Counts, Names
<1> USE DEF Goto, rollerVars, loopVars, linkVars, lineVars, Command
<1>0. Subscriptions \subseteq Topics
  BY Rs485Assumption DEF Subscriptions
<1>1. CASE Setup \/ Uptime \/ Offline \/ Text
  <2>1. Counts'
    BY <1>1, Constants DEF Setup, Uptime, Offline, Text, Counts, MaxAge
  <2>2. Names'
    BY <1>0, <1>1, Rs485Assumption DEF Setup, Uptime, Offline, Text, MqttConnect, Names
  <2> QED
    BY <2>1, <2>2
<1>2. CASE Call
  <2>0. Timeout \in 0 .. ULongMax /\ i \in Rollers
    BY <1>2, Constants DEF Call, Counts, Rollers
  <2>1. Counts'
    <3>1. timer' = timer \/ timer' = [timer EXCEPT ![i] = Timeout]
      BY <1>2 DEF Call
    <3>2. timer' \in [Rollers -> 0 .. ULongMax]
      BY <2>0, <3>1 DEF Counts
    <3>3. UNCHANGED <<i, busy, age>>
      BY <1>2 DEF Call
    <3> QED
      BY <3>2, <3>3 DEF Counts, MaxAge
  <2>2. Names'
    BY <1>2 DEF Call, Names
  <2> QED
    BY <2>1, <2>2
<1>3. CASE Set
  <2>1. Counts'
    BY <1>3 DEF Set, Counts, MaxAge
  <2>2. Names'
    BY <1>3 DEF Set, Names
  <2> QED
    BY <2>1, <2>2
<1>4. CASE Println \/ Skip \/ Done
  <2>1. Counts'
    <3>1. i \in 1 .. ROLLER_COUNT
          \/ (UNCHANGED <<timer, age>> /\ i' = 1 /\ busy' = 0)
      BY <1>4, Constants DEF Println, Skip, Done, MoveInv, Counts
    <3>2. CASE i \in 1 .. ROLLER_COUNT
      BY <1>4, <3>2, Constants DEF Println, Skip, Done, Counts, MaxAge
    <3>3. CASE UNCHANGED <<timer, age>> /\ i' = 1 /\ busy' = 0
      BY <3>3, Constants DEF Counts, MaxAge
    <3> QED
      BY <3>1, <3>2, <3>3
  <2>2. Names'
    BY <1>4 DEF Println, Skip, Done, Names
  <2> QED
    BY <2>1, <2>2
<1>5. CASE Tick
  <2>1. timer' \in [Rollers -> 0 .. ULongMax]
    <3>1. ASSUME NEW r \in Rollers PROVE timer'[r] \in 0 .. ULongMax
      BY <1>5, TickMoves, Constants DEF Counts, MoveInv
    <3>2. timer' = [r \in Rollers |-> timer'[r]]
      BY <1>5 DEF Tick
    <3> QED
      BY <3>1, <3>2
  <2>2. busy' \in 0 .. HandlerTicks /\ i' = i
    BY <1>5, Constants DEF Tick, Counts
  <2>3. age' \in 0 .. MaxAge
    BY <1>5, Constants DEF Tick, Counts, MaxAge
  <2>4. Counts'
    BY <2>1, <2>2, <2>3 DEF Counts, MaxAge
  <2>5. state' \in [Rollers -> {"Off", "Up", "Down"}] /\ UNCHANGED <<pc, topic, cmd, link, subscribed>>
    BY <1>5 DEF Tick, Names
  <2>6. torn' \in BOOLEAN /\ said' \in Command /\ told' \in BOOLEAN
    BY <1>5 DEF Tick, Stops, Names
  <2>7. Names'
    BY <2>5, <2>6 DEF Names
  <2> QED
    BY <2>4, <2>7
<1>6. CASE LinkLost
  BY <1>6 DEF LinkLost, Counts, Names, MaxAge
<1>7. CASE Restart
  <2>1. Counts'
    BY <1>7, Constants DEF Restart, Counts, MaxAge
  <2>2. Names'
    BY <1>7, Rs485Assumption DEF Restart, Names
  <2> QED
    BY <2>1, <2>2
<1>8. ASSUME NEW t \in Topics, NEW payload \in Command, Receive(t, payload) PROVE Counts' /\ Names'
  BY <1>8 DEF Receive, Counts, Names, MaxAge
<1>9. CASE UNCHANGED vars
  BY <1>9 DEF vars, Counts, Names, MaxAge
<1> QED
  BY <1>1, <1>2, <1>3, <1>4, <1>5, <1>6, <1>7, <1>8, <1>9 DEF Next, Main

LEMMA MoveInit == Init => MoveInv
BY DEF Init, MoveInv

LEMMA MoveNext == TypeOK /\ MoveInv /\ RoundInv /\ [Next]_vars => MoveInv'
<1> SUFFICES ASSUME Counts, Names, MoveInv, RoundInv, [Next]_vars PROVE MoveInv'
  BY Types
<1> USE DEF Goto, rollerVars, loopVars, linkVars, lineVars
<1>1. CASE Setup \/ Uptime \/ Offline \/ Text \/ LinkLost
  BY <1>1 DEF Setup, Uptime, Offline, Text, LinkLost, MoveInv
<1>2. CASE Call
  <2>1. i \in Rollers /\ Concerned(i) /\ pc' = "set"
    BY <1>2 DEF Call, Counts, Rollers
  <2>2. Concerned(1)'
    BY <1>2, <2>1, SameTopic DEF Call, Concerned
  <2>3. \A r \in Rollers : timer'[r] = timer[r] \/ timer'[r] = Timeout
    BY <1>2 DEF Call, Counts
  <2>4. Timeout \in 1 .. Timeout
    BY Constants
  <2> QED
    BY <1>2, <2>1, <2>2, <2>3, <2>4 DEF Call, MoveInv
<1>3. CASE Set
  <2>1. /\ i \in Rollers /\ Round /\ i <= ROLLER_COUNT
        /\ pc = "set" /\ pc' = "print" /\ UNCHANGED <<timer, i, topic, cmd, busy>>
        /\ state' = [state EXCEPT ![i] = IF cmd = "Stop" THEN "Off" ELSE cmd]
    BY <1>3 DEF Set, MoveInv, Counts, Rollers, Round
  <2>2. cmd # "Stop" => timer[i] \in 1 .. Timeout
    <3>1. cmd # "Stop" => timer[i] \in Timeout - busy .. Timeout
      BY <2>1 DEF RoundInv, Called
    <3> QED
      BY <3>1, Constants DEF Counts
  <2>3. ASSUME NEW r \in Rollers, state'[r] # "Off" PROVE timer[r] \in 1 .. Timeout
    BY <2>1, <2>2, <2>3 DEF MoveInv, Names
  <2>4. Concerned(1)'
    BY <2>1 DEF Round, Concerned
  <2> QED
    BY <2>1, <2>3, <2>4 DEF MoveInv
<1>4. CASE Println \/ Skip \/ Done
  BY <1>4 DEF Println, Skip, Done, MoveInv
<1>5. CASE Tick
  <2>1. UNCHANGED <<pc, i, topic, cmd>> /\ (pc \in {"setup", "loop", "uptime", "text"} => busy' = busy)
    BY <1>5 DEF Tick
  <2>2. ASSUME NEW r \in Rollers, state'[r] # "Off" PROVE timer'[r] \in 1 .. Timeout
    <3>1. state[r] # "Off" /\ timer[r] # 1 /\ timer'[r] = timer[r] - 1
      BY <1>5, <2>2, TickMoves
    <3>2. timer[r] \in 1 .. Timeout
      BY <3>1 DEF MoveInv
    <3> QED
      BY <3>1, <3>2, Constants
  <2>3. Concerned(1)' <=> Concerned(1)
    BY <2>1 DEF Concerned
  <2> QED
    BY <2>1, <2>2, <2>3 DEF MoveInv
<1>6. CASE Restart
  BY <1>6 DEF Restart, MoveInv
<1>7. ASSUME NEW t \in Topics, NEW payload \in Command, Receive(t, payload) PROVE MoveInv'
  BY <1>7 DEF Receive, MoveInv
<1>8. CASE UNCHANGED vars
  BY <1>8 DEF vars, MoveInv, Concerned
<1> QED
  BY <1>1, <1>2, <1>3, <1>4, <1>5, <1>6, <1>7, <1>8 DEF Next, Main

-----------------------------------------------------------------------------
LEMMA RestInit == Init => RestInv /\ RoundInv
BY DEF Init, RestInv, RoundInv, Round

(* The parts of RestInv, for the steps below.                              *)
Aligned ==
  \A r, q \in Rollers : state[q] # "Off" =>
    IF state[r] = "Off" THEN timer[q] <= HandlerTicks
    ELSE state[r] = state[q] /\ timer[q] <= timer[r] + HandlerTicks
Stopping == \A r \in Rollers : state[r] = "Off" \/ timer[r] <= HandlerTicks
Moving   == \A r \in Rollers : state[r] = said /\ age + timer[r] <= Timeout

LEMMA RestParts ==
  RestInv <=> (~Round => /\ Aligned
                         /\ told /\ said = "Stop" => Stopping
                         /\ told /\ said # "Stop" => Moving)
BY DEF RestInv, Aligned, Stopping, Moving

(* When nothing moves the rest holds, whatever the line says of it.        *)
LEMMA AllOff ==
  ASSUME \A r \in Rollers : state[r] = "Off"
  PROVE  Aligned /\ Stopping
BY DEF Aligned, Stopping

(* The interrupt outside a round.                                          *)
LEMMA TickRests ==
  ASSUME Counts, Names, MoveInv, RestInv, Tick, ~Round
  PROVE  RestInv'
<1> USE Constants
<1>1. Aligned
  BY DEF RestInv, Aligned
<1>2. \A r \in Rollers :
        /\ timer[r] \in Nat
        /\ state[r] # "Off" => timer[r] \in 1 .. Timeout
        /\ state[r] = "Off" => state'[r] = "Off" /\ timer'[r] = timer[r]
        /\ state[r] # "Off" /\ timer[r] = 1 => state'[r] = "Off" /\ timer'[r] = 0
        /\ state[r] # "Off" /\ timer[r] # 1 => state'[r] = state[r] /\ timer'[r] = timer[r] - 1
        /\ Expired(r) <=> state[r] # "Off" /\ timer[r] = 1
  <2>1. \A r \in Rollers : timer[r] \in Nat
    BY DEF Counts
  <2>2. \A r \in Rollers : state[r] # "Off" => timer[r] \in 1 .. Timeout
    BY DEF MoveInv
  <2> QED
    BY <2>1, <2>2, TickMoves
<1>3. Aligned'
  <2> SUFFICES ASSUME NEW r \in Rollers, NEW q \in Rollers, state'[q] # "Off"
               PROVE  IF state'[r] = "Off" THEN timer'[q] <= HandlerTicks
                      ELSE state'[r] = state'[q] /\ timer'[q] <= timer'[r] + HandlerTicks
    BY DEF Aligned
  <2>1. /\ state[q] # "Off" /\ timer[q] \in 2 .. Timeout
        /\ state'[q] = state[q] /\ timer'[q] = timer[q] - 1
    BY <1>2
  <2>2. CASE state[r] = "Off"
    <3>1. timer[q] <= HandlerTicks /\ state'[r] = "Off"
      BY <1>1, <1>2, <2>1, <2>2 DEF Aligned
    <3> QED
      BY <2>1, <3>1
  <2>3. CASE state[r] # "Off"
    <3>1. state[r] = state[q] /\ timer[q] <= timer[r] + HandlerTicks /\ timer[r] \in 1 .. Timeout
      BY <1>1, <1>2, <2>1, <2>3 DEF Aligned
    <3>2. CASE timer[r] = 1
      <4>1. state'[r] = "Off"
        BY <1>2, <2>3, <3>2
      <4>2. timer'[q] <= HandlerTicks
        BY <2>1, <3>1, <3>2
      <4> QED
        BY <4>1, <4>2
    <3>3. CASE timer[r] # 1
      <4>1. state'[r] = state[r] /\ timer'[r] = timer[r] - 1
        BY <1>2, <2>3, <3>3
      <4>2. timer[q] - 1 <= (timer[r] - 1) + HandlerTicks
        BY <2>1, <3>1
      <4> QED
        BY <2>1, <2>3, <3>1, <4>1, <4>2
    <3> QED
      BY <3>2, <3>3
  <2> QED
    BY <2>2, <2>3
<1>4. ASSUME told', said' = "Stop" PROVE Stopping'
  <2> SUFFICES ASSUME NEW q \in Rollers, state'[q] # "Off" PROVE timer'[q] <= HandlerTicks
    BY DEF Stopping
  <2>1. state[q] # "Off" /\ timer[q] \in 2 .. Timeout /\ timer'[q] = timer[q] - 1
    BY <1>2
  <2>2. CASE \E r \in Rollers : Expired(r)
    <3>1. PICK r \in Rollers : state[r] # "Off" /\ timer[r] = 1
      BY <1>2, <2>2
    <3>2. timer[q] <= timer[r] + HandlerTicks
      BY <1>1, <2>1, <3>1 DEF Aligned
    <3> QED
      BY <2>1, <3>1, <3>2
  <2>3. CASE \A r \in Rollers : ~Expired(r)
    <3>1. UNCHANGED <<said, told>>
      BY <2>3 DEF Tick
    <3>2. timer[q] <= HandlerTicks
      BY <1>4, <2>1, <3>1 DEF RestInv
    <3> QED
      BY <2>1, <3>2
  <2> QED
    BY <2>2, <2>3
<1>5. ASSUME told', said' # "Stop" PROVE Moving'
  <2>1. (\A r \in Rollers : ~Expired(r)) /\ UNCHANGED <<said, told>>
    BY <1>5, TickSays
  <2>2. Moving
    BY <1>5, <2>1 DEF RestInv, Moving
  <2>3. ASSUME NEW r \in Rollers PROVE state'[r] = said' /\ age' + timer'[r] <= Timeout
    <3>1. state[r] = said /\ age + timer[r] <= Timeout /\ state[r] # "Off"
      BY <1>5, <2>1, <2>2 DEF Moving, Names, Command
    <3>2. state'[r] = state[r] /\ timer'[r] = timer[r] - 1 /\ timer[r] \in 1 .. Timeout
      BY <1>2, <2>1, <3>1
    <3>3. age \in Nat /\ age' \in {age, age + 1}
      BY DEF Tick, Counts, MaxAge
    <3>4. age' + timer'[r] <= Timeout
      BY <3>1, <3>2, <3>3
    <3> QED
      BY <2>1, <3>1, <3>2, <3>4
  <2> QED
    BY <2>3 DEF Moving
<1> QED
  BY <1>3, <1>4, <1>5 DEF RestInv, Aligned, Stopping, Moving

(* The interrupt in a round.                                               *)
LEMMA TickRounds ==
  ASSUME Counts, Names, MoveInv, RoundInv, Tick, Round
  PROVE  RoundInv'
<1> USE Constants
<1>1. /\ busy \in Nat /\ busy < HandlerTicks /\ busy' = busy + 1 /\ age \in Nat
      /\ age' \in {age, age + 1} /\ UNCHANGED <<pc, i, topic, cmd>>
  <2>1. busy \in Nat /\ age \in Nat
    BY DEF Counts, MaxAge
  <2>2. busy < HandlerTicks /\ busy' = busy + 1
    BY DEF Tick, Round
  <2>3. age' \in {age, age + 1}
    BY DEF Tick
  <2>4. UNCHANGED <<pc, i, topic, cmd>>
    BY DEF Tick, loopVars
  <2> QED
    BY <2>1, <2>2, <2>3, <2>4
<1>2. ASSUME told', said' # "Stop" PROVE age' < Timeout + busy'
  <2>1. UNCHANGED <<said, told>>
    BY <1>2, TickSays
  <2>2. age < Timeout + busy
    BY <1>2, <2>1 DEF RoundInv
  <2> QED
    BY <1>1, <2>2
<1>3. ASSUME NEW r \in Rollers, cmd # "Stop", Called(r)
      PROVE  /\ timer'[r] \in Timeout - busy' .. Timeout
             /\ timer[r] # 1
  <2>1. timer[r] \in Timeout - busy .. Timeout
    BY <1>3 DEF RoundInv
  <2>2. timer[r] # 1 /\ timer[r] > 1
    BY <1>1, <2>1
  <2>3. timer'[r] = timer[r] \/ timer'[r] = timer[r] - 1
    BY <2>2, TickMoves
  <2> QED
    BY <1>1, <2>1, <2>2, <2>3
<1>4. ASSUME NEW r \in Rollers, Told(r)
      PROVE  state'[r] = (IF cmd = "Stop" THEN "Off" ELSE cmd) /\ ~Expired(r)
  <2>1. state[r] = (IF cmd = "Stop" THEN "Off" ELSE cmd) /\ Called(r)
    BY <1>4 DEF RoundInv, Told, Called
  <2> QED
    BY <1>3, <2>1, TickMoves
<1>5. ASSUME i > ROLLER_COUNT, told'
      PROVE  said' = cmd /\ (cmd # "Stop" => \A r \in Rollers : age' + timer'[r] <= Timeout)
  <2>1. \A r \in Rollers : Told(r)
    BY <1>5 DEF Told, Rollers, Counts
  <2>2. UNCHANGED <<said, told>>
    <3>1. {r \in Rollers : Expired(r)} = {}
      BY <1>4, <2>1
    <3> QED
      BY <3>1 DEF Tick
  <2>3. said = cmd /\ (cmd # "Stop" => \A r \in Rollers : age + timer[r] <= Timeout)
    BY <1>5, <2>2 DEF RoundInv
  <2>4. ASSUME NEW r \in Rollers, cmd # "Stop" PROVE age' + timer'[r] <= Timeout
    <3>1. state[r] # "Off" /\ Called(r)
      BY <2>1, <2>4 DEF RoundInv, Told, Called, Names, Command
    <3>2. timer'[r] = timer[r] - 1 /\ timer[r] \in Nat
      BY <1>3, <2>4, <3>1, TickMoves DEF Counts
    <3>3. age + timer[r] <= Timeout
      BY <2>3, <2>4
    <3> QED
      BY <1>1, <3>2, <3>3
  <2> QED
    BY <2>2, <2>3, <2>4
<1>6. /\ Round' /\ (\A r \in Rollers : (Called(r)' <=> Called(r)) /\ (Told(r)' <=> Told(r)))
  BY <1>1 DEF Round, Concerned, Called, Told
<1> QED
  BY <1>1, <1>2, <1>3, <1>4, <1>5, <1>6 DEF RoundInv

(* Main.                                                                   *)
LEMMA MainRests ==
  ASSUME Counts, Names, MoveInv, RestInv, RoundInv, Setup \/ Uptime \/ Offline \/ LinkLost \/ Skip
  PROVE  RestInv' /\ RoundInv'
<1> USE DEF Goto, rollerVars, loopVars, linkVars, lineVars
<1>1. ~Round /\ ~Round' /\ UNCHANGED <<state, timer, told, said, age>>
  <2>1. CASE Setup \/ Uptime \/ Offline \/ LinkLost
    BY <2>1 DEF Setup, Uptime, Offline, LinkLost, Round
  <2>2. CASE Skip
    <3>1. i \in Rollers /\ ~Concerned(i)
      BY <2>2 DEF Skip, Counts, Rollers
    <3>2. ~Concerned(1)
      BY <3>1, SameTopic
    <3> QED
      BY <2>2, <3>2 DEF Skip, Round, Concerned
  <2> QED
    BY <2>1, <2>2
<1> QED
  BY <1>1 DEF RestInv, RoundInv

LEMMA ReceiveRests ==
  ASSUME Counts, Names, MoveInv, RestInv, RoundInv,
         NEW t \in Topics, NEW payload \in Command, Receive(t, payload)
  PROVE  RestInv' /\ RoundInv'
<1>1. ~Round /\ ~Round' /\ UNCHANGED <<state, timer, told, said, age>>
  BY DEF Receive, Round, Goto, rollerVars, lineVars
<1> QED
  BY <1>1 DEF RestInv, RoundInv

(* A round begins: no roller has been called yet.                          *)
LEMMA TextRests ==
  ASSUME Counts, Names, MoveInv, RestInv, RoundInv, Text
  PROVE  RestInv' /\ RoundInv'
<1> USE Constants
<1>1. /\ pc = "text" /\ pc' = "each" /\ i' = 1 /\ busy' = busy
      /\ UNCHANGED <<state, timer, topic, cmd, told, said, age>>
  BY DEF Text, Goto, rollerVars
<1>2. ~Round
  BY <1>1 DEF Round
<1>3. RestInv'
  BY <1>1, <1>2 DEF RestInv
<1>4. busy = 0
  BY <1>1 DEF MoveInv
<1>5. ASSUME told, said # "Stop" PROVE age < Timeout + busy
  <2>1. state[1] # "Off" /\ age + timer[1] <= Timeout
    BY <1>2, <1>5 DEF RestInv, Names, Command
  <2>2. timer[1] \in 1 .. Timeout /\ age \in Nat
    BY <2>1 DEF MoveInv, Counts, MaxAge
  <2> QED
    BY <1>4, <2>1, <2>2
<1>6. \A r \in Rollers : ~Called(r)' /\ ~Told(r)'
  BY <1>1 DEF Called, Told, Rollers
<1>7. ~(i' > ROLLER_COUNT)
  BY <1>1
<1>8. told' /\ said' # "Stop" => age' < Timeout + busy'
  BY <1>1, <1>5
<1> QED
  BY <1>3, <1>6, <1>7, <1>8 DEF RoundInv

LEMMA CallRests ==
  ASSUME Counts, Names, MoveInv, RestInv, RoundInv, Call
  PROVE  RestInv' /\ RoundInv'
<1> USE Constants
<1>1. /\ i \in Rollers /\ Concerned(i) /\ pc = "each" /\ pc' = "set"
      /\ timer' = (IF cmd = "Stop" THEN timer ELSE [timer EXCEPT ![i] = Timeout])
      /\ UNCHANGED <<state, i, topic, cmd, busy, told, said, age>>
  BY DEF Call, Goto, lineVars, Counts, Rollers
<1>2. Round /\ Round' /\ ~(i' > ROLLER_COUNT)
  <2>1. Concerned(1)
    BY <1>1, SameTopic
  <2> QED
    BY <1>1, <2>1 DEF Round, Concerned, Rollers
<1>3. told' /\ said' # "Stop" => age' < Timeout + busy'
  BY <1>1, <1>2 DEF RoundInv
<1>4. ASSUME NEW r \in Rollers, cmd # "Stop", Called(r)'
      PROVE  timer'[r] \in Timeout - busy' .. Timeout
  <2>1. CASE r = i
    <3>1. timer'[r] = Timeout /\ busy' = busy /\ busy \in Nat
      BY <1>1, <1>4, <2>1 DEF Counts
    <3> QED
      BY <3>1
  <2>2. CASE r # i
    <3>1. Called(r) /\ timer'[r] = timer[r]
      BY <1>1, <1>4, <2>2 DEF Called, Counts
    <3> QED
      BY <1>1, <1>2, <1>4, <3>1 DEF RoundInv
  <2> QED
    BY <2>1, <2>2
<1>5. ASSUME NEW r \in Rollers, Told(r)'
      PROVE  state'[r] = (IF cmd = "Stop" THEN "Off" ELSE cmd)
  <2>1. Told(r)
    BY <1>1, <1>5 DEF Told
  <2> QED
    BY <1>1, <1>2, <2>1 DEF RoundInv
<1> QED
  BY <1>1, <1>2, <1>3, <1>4, <1>5 DEF RestInv, RoundInv

LEMMA SetRests ==
  ASSUME Counts, Names, MoveInv, RestInv, RoundInv, Set
  PROVE  RestInv' /\ RoundInv'
<1> USE Constants
<1>1. /\ i \in Rollers /\ i <= ROLLER_COUNT /\ Concerned(1) /\ pc = "set" /\ pc' = "print"
      /\ state' = [state EXCEPT ![i] = IF cmd = "Stop" THEN "Off" ELSE cmd]
      /\ UNCHANGED <<timer, i, topic, cmd, busy, told, said, age>>
  BY DEF Set, Goto, lineVars, MoveInv, Counts, Rollers
<1>2. Round /\ Round' /\ ~(i' > ROLLER_COUNT)
  BY <1>1 DEF Round, Concerned, Rollers
<1>3. told' /\ said' # "Stop" => age' < Timeout + busy'
  BY <1>1, <1>2 DEF RoundInv
<1>4. ASSUME NEW r \in Rollers, cmd # "Stop", Called(r)'
      PROVE  timer'[r] \in Timeout - busy' .. Timeout
  <2>1. Called(r)
    BY <1>1, <1>4 DEF Called
  <2> QED
    BY <1>1, <1>2, <1>4, <2>1 DEF RoundInv
<1>5. ASSUME NEW r \in Rollers, Told(r)'
      PROVE  state'[r] = (IF cmd = "Stop" THEN "Off" ELSE cmd)
  <2>1. CASE r = i
    BY <1>1, <2>1 DEF Names
  <2>2. CASE r # i
    <3>1. Told(r) /\ state'[r] = state[r]
      BY <1>1, <1>5, <2>2 DEF Told, Names
    <3> QED
      BY <1>2, <3>1 DEF RoundInv
  <2> QED
    BY <2>1, <2>2
<1> QED
  BY <1>1, <1>2, <1>3, <1>4, <1>5 DEF RestInv, RoundInv

(* The line has said the command: from now on age counts from here.        *)
LEMMA PrintlnRests ==
  ASSUME Counts, Names, MoveInv, RestInv, RoundInv, Println
  PROVE  RestInv' /\ RoundInv'
<1> USE Constants
<1>1. /\ i \in Rollers /\ Concerned(1) /\ pc = "print" /\ pc' = "each" /\ i' = i + 1
      /\ told' = ~torn /\ (~torn => said' = cmd /\ age' = 0)
      /\ UNCHANGED <<state, timer, topic, cmd, busy>>
  BY DEF Println, Goto, rollerVars, MoveInv, Counts, Rollers
<1>2. Round /\ Round'
  BY <1>1 DEF Round, Concerned
<1>3. told' /\ said' # "Stop" => age' < Timeout + busy'
  <2>1. busy' = busy /\ busy \in Nat
    BY <1>1 DEF Counts
  <2>2. told' => ~torn
    BY <1>1, Zenon DEF Names
  <2>3. told' => age' = 0
    BY <1>1, <2>2
  <2> QED
    BY <2>1, <2>3
<1>4. \A r \in Rollers : Called(r)' <=> Called(r)
  BY <1>1 DEF Called, Rollers
<1>5. \A r \in Rollers : Told(r)' <=> Told(r)
  BY <1>1 DEF Told, Rollers
<1>6. ASSUME i' > ROLLER_COUNT, told', cmd # "Stop", NEW r \in Rollers
      PROVE  age' + timer'[r] <= Timeout
  <2>1. Called(r)
    BY <1>1, <1>6 DEF Called, Rollers
  <2>2. timer[r] \in Nat /\ timer[r] <= Timeout
    BY <1>2, <1>6, <2>1 DEF RoundInv, Counts
  <2>3. age' = 0 /\ timer'[r] = timer[r]
    BY <1>1, <1>6 DEF Names
  <2> QED
    BY <2>2, <2>3
<1>7. told' => said' = cmd
  BY <1>1 DEF Names
<1> QED
  BY <1>1, <1>2, <1>3, <1>4, <1>5, <1>6, <1>7 DEF RestInv, RoundInv

(* The round is over: all rollers do what the command says, and their time *)
(* began at most a round's interrupts ago.                                 *)
LEMMA DoneRests ==
  ASSUME Counts, Names, MoveInv, RestInv, RoundInv, Done
  PROVE  RestInv' /\ RoundInv'
<1> USE Constants
<1>1. /\ i > ROLLER_COUNT /\ pc = "each" /\ pc' = "loop"
      /\ UNCHANGED <<state, timer, topic, cmd, told, said, age>>
  BY DEF Done, Goto, rollerVars, lineVars
<1>2. ~Round'
  BY <1>1 DEF Round
<1>3. CASE ~Round
  BY <1>1, <1>2, <1>3 DEF RestInv, RoundInv
<1>4. CASE Round
  <2>1. \A r \in Rollers : Called(r) /\ Told(r)
    BY <1>1 DEF Called, Told, Rollers, Counts
  <2>2. \A r \in Rollers : state[r] = (IF cmd = "Stop" THEN "Off" ELSE cmd)
    BY <1>4, <2>1 DEF RoundInv
  <2>3. told => said = cmd /\ (cmd # "Stop" => \A r \in Rollers : age + timer[r] <= Timeout)
    BY <1>1, <1>4 DEF RoundInv
  <2>4. CASE cmd = "Stop"
    <3>1. \A r \in Rollers : state[r] = "Off"
      BY <2>2, <2>4
    <3>2. Aligned /\ Stopping
      BY <3>1 DEF Aligned, Stopping
    <3> QED
      BY <1>1, <1>2, <2>3, <2>4, <3>2 DEF RestInv, RoundInv, Aligned, Stopping
  <2>5. CASE cmd # "Stop"
    <3>1. \A r \in Rollers : state[r] = cmd /\ cmd # "Off"
      BY <2>2, <2>5 DEF Names, Command
    <3>2. ASSUME NEW r \in Rollers, NEW q \in Rollers
          PROVE  timer[q] <= timer[r] + HandlerTicks
      <4>1. timer[q] \in Timeout - busy .. Timeout /\ timer[r] \in Timeout - busy .. Timeout
        BY <1>4, <2>1, <2>5 DEF RoundInv
      <4>2. busy \in 0 .. HandlerTicks
        BY DEF Counts
      <4> QED
        BY <4>1, <4>2
    <3>3. Aligned
      BY <3>1, <3>2 DEF Aligned
    <3>4. told => said # "Stop" /\ Moving
      BY <2>3, <2>5, <3>1 DEF Moving
    <3> QED
      BY <1>1, <1>2, <3>3, <3>4 DEF RestInv, RoundInv, Aligned, Moving
  <2> QED
    BY <2>4, <2>5
<1> QED
  BY <1>3, <1>4

LEMMA RestNext == TypeOK /\ MoveInv /\ RestInv /\ RoundInv /\ [Next]_vars => RestInv' /\ RoundInv'
<1> SUFFICES ASSUME Counts, Names, MoveInv, RestInv, RoundInv, [Next]_vars
             PROVE  RestInv' /\ RoundInv'
  BY Types
<1>1. CASE Setup \/ Uptime \/ Offline \/ LinkLost \/ Skip
  BY <1>1, MainRests
<1>2. CASE Text
  BY <1>2, TextRests
<1>3. CASE Call
  BY <1>3, CallRests
<1>4. CASE Set
  BY <1>4, SetRests
<1>5. CASE Println
  BY <1>5, PrintlnRests
<1>6. CASE Done
  BY <1>6, DoneRests
<1>7. CASE Tick
  <2>1. Round' <=> Round
    BY <1>7 DEF Tick, Round, Concerned, loopVars
  <2>2. CASE Round
    BY <1>7, <2>1, <2>2, TickRounds DEF RestInv
  <2>3. CASE ~Round
    BY <1>7, <2>1, <2>3, TickRests DEF RoundInv
  <2> QED
    BY <2>2, <2>3
<1>8. CASE Restart
  <2>1. /\ ~Round' /\ (\A r \in Rollers : state'[r] = "Off")
        /\ (told' => said' = "Stop")
    BY <1>8 DEF Restart, Round
  <2> QED
    BY <2>1 DEF RestInv, RoundInv
<1>9. ASSUME NEW t \in Topics, NEW payload \in Command, Receive(t, payload)
      PROVE  RestInv' /\ RoundInv'
  BY <1>9, ReceiveRests
<1>10. CASE UNCHANGED vars
  <2>1. UNCHANGED <<state, timer, pc, i, topic, cmd, busy, told, said, age>>
    BY <1>10 DEF vars, rollerVars, loopVars, lineVars
  <2>2. (Round' <=> Round) /\ \A r \in Rollers : (Called(r)' <=> Called(r)) /\ (Told(r)' <=> Told(r))
    BY <2>1 DEF Round, Concerned, Called, Told
  <2> QED
    BY <2>1, <2>2 DEF RestInv, RoundInv
<1> QED
  BY <1>1, <1>2, <1>3, <1>4, <1>5, <1>6, <1>7, <1>8, <1>9, <1>10 DEF Next, Main

-----------------------------------------------------------------------------
(* Whatever main, the interrupt, the broker and a restart do: the rollers  *)
(* move together, their timers say how long still, and the line says it.   *)
THEOREM KitchenInvariant == Spec => []KitchenInv
<1>1. Init => KitchenInv
  BY TypeInit, MoveInit, RestInit DEF KitchenInv
<1>2. KitchenInv /\ [Next]_vars => KitchenInv'
  BY TypeNext, MoveNext, RestNext DEF KitchenInv
<1> QED
  BY <1>1, <1>2, PTL DEF Spec

(* The types of the controller's state: no timer wraps past 0.             *)
THEOREM KitchenTypeCorrect == Spec => []TypeOK
<1>1. KitchenInv => TypeOK
  BY DEF KitchenInv
<1> QED
  BY <1>1, KitchenInvariant, PTL

(* Between calls the line has last said what every roller does.            *)
THEOREM LineIsTrue == Spec => []LineTells
<1>1. KitchenInv => LineTells
  <2> SUFFICES ASSUME KitchenInv, pc = "loop", told, NEW r \in Rollers
               PROVE  IF said = "Stop" THEN state[r] = "Off" \/ timer[r] <= HandlerTicks
                      ELSE state[r] = said
    BY DEF LineTells
  <2>1. ~Round
    BY DEF Round
  <2> QED
    BY <2>1 DEF KitchenInv, RestInv
<1> QED
  BY <1>1, KitchenInvariant, PTL

(* A blind told to move is told to stop within the time-out.               *)
THEOREM MovesEnd == Spec => []MoveEnds
<1>1. KitchenInv => MoveEnds
  <2> SUFFICES ASSUME Counts, Names, MoveInv, RestInv, RoundInv, told, said # "Stop"
               PROVE  age < Timeout + HandlerTicks
    BY Types DEF KitchenInv, MoveEnds
  <2>0. age \in Nat /\ busy \in 0 .. HandlerTicks
    BY DEF Counts, MaxAge
  <2>1. CASE Round
    <3>1. age < Timeout + busy
      BY <2>1 DEF RoundInv
    <3> QED
      BY <2>0, <3>1, Constants
  <2>2. CASE ~Round
    <3>1. state[1] # "Off" /\ age + timer[1] <= Timeout
      BY <2>2, Constants DEF RestInv, Names, Command
    <3>2. timer[1] \in 1 .. Timeout
      BY <3>1, Constants DEF MoveInv
    <3> QED
      BY <2>0, <3>1, <3>2, Constants
  <2> QED
    BY <2>1, <2>2
<1> QED
  BY <1>1, KitchenInvariant, PTL
-----------------------------------------------------------------------------
(***************************************************************************)
(* What the link's loss comes to, step by step: the part of OfflineSays    *)
(* that does not need fairness.                                            *)
(***************************************************************************)
(* The interrupt prints into main's lines only, and not into the last of a *)
(* round of "Stop": by then every roller has stopped.                      *)
StopInv ==
  /\ pc \notin {"uptime", "text", "print"} => ~torn
  /\ Round /\ cmd = "Stop" =>
       /\ i = ROLLER_COUNT /\ pc = "print" => ~torn
       /\ i > ROLLER_COUNT => said = "Stop"

(* From the pass of loop() that finds the link gone main is on its way to  *)
(* the last "Stop", whether or not the link is back meanwhile.             *)
GivingUp ==
  \/ pc = "loop" /\ ~link
  \/ pc \in {"text", "each", "set", "print"} /\ Concerned(1) /\ cmd = "Stop"

(* The steps of main that are left: three for every roller still to call.  *)
Left(location, n) ==
  CASE location = "loop"  -> 3 * ROLLER_COUNT + 3
    [] location = "text"  -> 3 * ROLLER_COUNT + 2
    [] location = "each"  -> 3 * (ROLLER_COUNT + 1 - n) + 1
    [] location = "set"   -> 3 * (ROLLER_COUNT + 1 - n)
    [] location = "print" -> 3 * (ROLLER_COUNT + 1 - n) - 1
    [] OTHER -> 0

StepsLeft == Left(pc, i)

AllStopped == said = "Stop" /\ \A r \in Rollers : state[r] = "Off"

(* At the end of a round of stop() every roller is off and the line has    *)
(* said so last, whatever the interrupt printed meanwhile.                 *)
StopsComplete == pc = "each" /\ i > ROLLER_COUNT /\ Concerned(1) /\ cmd = "Stop" => AllStopped

(* Three steps for each roller and three more are enough.                  *)
StepsType == GivingUp => StepsLeft \in 1 .. 3 * ROLLER_COUNT + 3

(* On that way each step is a restart, an interrupt, which changes nothing *)
(* about it, or one step less; the last leaves all rollers stopped.        *)
StopsProceed ==
  [][GivingUp => \/ Restart
                 \/ Tick /\ GivingUp' /\ StepsLeft' = StepsLeft
                 \/ GivingUp' /\ StepsLeft' = StepsLeft - 1
                 \/ StepsLeft = 1 /\ pc' = "loop" /\ AllStopped']_vars

LEMMA TickTears ==
  ASSUME Tick
  PROVE  /\ torn' = torn \/ pc \in {"uptime", "text", "print"}
         /\ (\A r \in Rollers : ~Expired(r)) => torn' = torn
<1> DEFINE over == {r \in Rollers : Expired(r)}
<1>1. IF over = {} THEN UNCHANGED <<torn, said, told>> ELSE Stops(over)
  BY DEF Tick
<1> QED
  BY <1>1 DEF Stops

LEMMA StopInit == Init => StopInv
BY DEF Init, StopInv, Round

LEMMA StopNext == KitchenInv /\ StopInv /\ [Next]_vars => StopInv'
<1> SUFFICES ASSUME Counts, Names, MoveInv, RoundInv, StopInv, [Next]_vars PROVE StopInv'
  BY Types DEF KitchenInv
<1> USE DEF Goto, StopInv
<1>1. CASE Setup \/ Uptime \/ Offline \/ LinkLost
  BY <1>1 DEF Setup, Uptime, Offline, LinkLost, Round, loopVars, lineVars
<1>2. ASSUME NEW t \in Topics, NEW payload \in Command, Receive(t, payload) PROVE StopInv'
  BY <1>2 DEF Receive, Round, lineVars
<1>3. CASE Text
  BY <1>3, Constants DEF Text
<1>4. CASE Skip
  <2>1. ~Concerned(1)
    <3>1. i \in Rollers /\ ~Concerned(i)
      BY <1>4, Constants DEF Skip, Counts, Rollers
    <3> QED
      BY <3>1, SameTopic
  <2> QED
    BY <1>4, <2>1 DEF Skip, Round, Concerned, lineVars
<1>5. CASE Call \/ Set
  <2>1. i' = i /\ i <= ROLLER_COUNT /\ pc' \in {"set", "print"} /\ torn' = torn /\ ~torn
    BY <1>5 DEF Call, Set, MoveInv, lineVars
  <2> QED
    BY <2>1, Constants DEF Counts
<1>6. CASE Println
  <2>1. i' = i + 1 /\ pc' = "each" /\ ~torn' /\ cmd' = cmd /\ (said' = cmd \/ torn)
    BY <1>6 DEF Println
  <2>2. i \in 1 .. ROLLER_COUNT /\ Round
    BY <1>6 DEF Println, MoveInv, Counts, Round
  <2>3. i' > ROLLER_COUNT => i = ROLLER_COUNT
    BY <2>1, <2>2, Constants
  <2> QED
    BY <1>6, <2>1, <2>2, <2>3 DEF Println
<1>7. CASE Done
  BY <1>7 DEF Done, Round, lineVars
<1>8. CASE Tick
  <2>1. UNCHANGED <<pc, i, topic, cmd>> /\ (Round' <=> Round)
    BY <1>8 DEF Tick, loopVars, Round, Concerned
  <2>2. pc \notin {"uptime", "text", "print"} => ~torn'
    BY <1>8, TickTears
  <2>3. ASSUME Round, cmd = "Stop", i = ROLLER_COUNT, pc = "print" PROVE ~torn'
    <3>1. ASSUME NEW r \in Rollers PROVE ~Expired(r)
      <4>1. Told(r)
        BY <2>3, Constants DEF Told, Rollers
      <4>2. state[r] = "Off"
        BY <2>3, <4>1 DEF RoundInv
      <4> QED
        BY <4>2 DEF Expired
    <3> QED
      BY <1>8, <2>3, <3>1, TickTears
  <2>4. said = "Stop" => said' = "Stop"
    BY <1>8, TickSays
  <2> QED
    BY <2>1, <2>2, <2>3, <2>4
<1>9. CASE Restart
  BY <1>9 DEF Restart, Round
<1>10. CASE UNCHANGED vars
  BY <1>10 DEF vars, loopVars, lineVars, Round, Concerned
<1> HIDE DEF Goto, StopInv
<1> QED
  BY <1>1, <1>2, <1>3, <1>4, <1>5, <1>6, <1>7, <1>8, <1>9, <1>10 DEF Next, Main

LEMMA StopInvariant == Spec => [](KitchenInv /\ StopInv)
<1>1. Init => StopInv
  BY StopInit
<1>2. KitchenInv /\ StopInv /\ [Next]_vars => StopInv'
  BY StopNext
<1> QED
  BY <1>1, <1>2, KitchenInvariant, PTL DEF Spec

LEMMA RoundOfStops == KitchenInv /\ StopInv => StopsComplete
<1> SUFFICES ASSUME Counts, RoundInv, StopInv, pc = "each", i > ROLLER_COUNT,
                    Concerned(1), cmd = "Stop"
             PROVE  AllStopped
  BY Types DEF KitchenInv, StopsComplete
<1>1. Round
  BY DEF Round
<1>2. said = "Stop"
  BY <1>1 DEF StopInv
<1>3. ASSUME NEW r \in Rollers PROVE state[r] = "Off"
  <2>1. Told(r)
    BY Constants DEF Told, Rollers, Counts
  <2> QED
    BY <1>1, <2>1 DEF RoundInv
<1> QED
  BY <1>2, <1>3 DEF AllStopped

(* A "Stop" for all the rollers, the broker's or the one of a lost link,   *)
(* always gets through to the line in the end and leaves them all "Off":   *)
(* of the lines of a round an interrupt cannot spoil the last.             *)
THEOREM StopsGetThrough == Spec => []StopsComplete
BY RoundOfStops, StopInvariant, PTL

(* How the steps that are left go down.                                    *)
LEMMA Leftovers ==
  /\ \A n \in 1 .. ROLLER_COUNT + 1 : Left("loop", n) - 1 = Left("text", n)
  /\ \A n \in 1 .. ROLLER_COUNT + 1 : Left("text", n) - 1 = Left("each", 1)
  /\ \A n \in 1 .. ROLLER_COUNT :
       /\ Left("each", n) - 1 = Left("set", n) /\ Left("set", n) - 1 = Left("print", n)
       /\ Left("print", n) - 1 = Left("each", n + 1)
  /\ Left("each", ROLLER_COUNT + 1) = 1
BY Constants DEF Left

(* The count is a count, and main never needs more steps than it says.     *)
THEOREM StepsAreCounted == Spec => []StepsType
<1>1. KitchenInv => StepsType
  <2> SUFFICES ASSUME Counts, MoveInv, GivingUp
               PROVE  StepsLeft \in 1 .. 3 * ROLLER_COUNT + 3
    BY Types DEF KitchenInv, StepsType
  <2>1. pc \in {"loop", "text", "each", "set", "print"} /\ i \in 1 .. ROLLER_COUNT + 1
    BY DEF GivingUp, Counts
  <2>2. pc \in {"set", "print"} => i \in 1 .. ROLLER_COUNT
    BY <2>1, Constants DEF MoveInv
  <2> QED
    BY <2>1, <2>2, Constants DEF StepsLeft, Left
<1> QED
  BY <1>1, KitchenInvariant, PTL

(* One step of main, on its way through a round of "Stop".                 *)
LEMMA StepsOn ==
  ASSUME Counts, MoveInv, GivingUp, Offline \/ Text \/ Call \/ Set \/ Println
  PROVE  GivingUp' /\ StepsLeft' = StepsLeft - 1
<1> USE DEF Goto, StepsLeft
<1>0. i \in 1 .. ROLLER_COUNT + 1
  BY DEF Counts
<1>1. CASE Offline
  <2>1. pc = "loop" /\ pc' = "text" /\ i' = i /\ topic' = MQTT_ROLLER_ALL /\ cmd' = "Stop"
    BY <1>1 DEF Offline
  <2> QED
    BY <1>0, <2>1, Leftovers DEF GivingUp, Concerned
<1>2. ASSUME Text \/ Call \/ Set \/ Println
      PROVE  GivingUp' /\ StepsLeft' = StepsLeft - 1
  <2>1. /\ pc # "loop" /\ pc' \in {"each", "set", "print"}
        /\ UNCHANGED <<topic, cmd>>
    BY <1>2 DEF Text, Call, Set, Println
  <2>2. GivingUp'
    BY <2>1 DEF GivingUp, Concerned
  <2>3. CASE Text
    BY <1>0, <2>2, <2>3, Leftovers DEF Text
  <2>4. CASE Call
    <3>1. i \in 1 .. ROLLER_COUNT
      BY <1>0, <2>4, Constants DEF Call
    <3> QED
      BY <2>2, <2>4, <3>1, Leftovers DEF Call
  <2>5. CASE Set \/ Println
    <3>1. i \in 1 .. ROLLER_COUNT
      BY <1>0, <2>5, Constants DEF Set, Println, MoveInv
    <3> QED
      BY <2>2, <2>5, <3>1, Leftovers DEF Set, Println
  <2> QED
    BY <1>2, <2>2, <2>3, <2>4, <2>5
<1> QED
  BY <1>1, <1>2

(* When loop() finds the link gone, and whenever main has a "Stop" for all *)
(* rollers: only main's own steps, each of which leaves one less, the      *)
(* interrupt, which leaves as many, and a restart can come; after the last *)
(* all rollers are "Off" and the line has said so.                         *)
THEOREM StopsInSteps == Spec => StopsProceed
<1> DEFINE Proceeds ==
      \/ Restart
      \/ Tick /\ GivingUp' /\ StepsLeft' = StepsLeft
      \/ GivingUp' /\ StepsLeft' = StepsLeft - 1
      \/ StepsLeft = 1 /\ pc' = "loop" /\ AllStopped'
<1>1. KitchenInv /\ StopInv /\ [Next]_vars => [GivingUp => Proceeds]_vars
  <2> SUFFICES ASSUME Counts, MoveInv, KitchenInv, StopInv, GivingUp, Next PROVE Proceeds
    BY Types DEF KitchenInv
  <2>1. CASE Offline \/ Text \/ Call \/ Set \/ Println
    BY <2>1, StepsOn
  <2>2. CASE Tick
    <3>1. UNCHANGED <<pc, i, topic, cmd, link>>
      BY <2>2 DEF Tick, loopVars, linkVars
    <3>2. GivingUp' /\ StepsLeft' = StepsLeft
      BY <3>1 DEF GivingUp, Concerned, StepsLeft
    <3> QED
      BY <2>2, <3>2
  <2>3. CASE Done
    <3>1. pc = "each" /\ i = ROLLER_COUNT + 1 /\ pc' = "loop" /\ UNCHANGED <<state, said>>
      BY <2>3, Constants DEF Done, Goto, Counts, rollerVars, lineVars
    <3>2. Concerned(1) /\ cmd = "Stop"
      BY <3>1 DEF GivingUp
    <3>3. AllStopped
      BY <3>1, <3>2, RoundOfStops, Constants DEF StopsComplete
    <3>4. AllStopped' /\ StepsLeft = 1
      BY <3>1, <3>3, Leftovers DEF AllStopped, StepsLeft
    <3> QED
      BY <3>1, <3>4
  <2>4. ~Skip
    <3> SUFFICES ASSUME Skip PROVE FALSE
      OBVIOUS
    <3>1. pc = "each" /\ i \in Rollers /\ ~Concerned(i)
      BY Constants DEF Skip, Counts, Rollers
    <3> QED
      BY <3>1, SameTopic DEF GivingUp
  <2>5. ~Setup /\ ~Uptime /\ ~LinkLost /\ \A t \in Topics, payload \in Command : ~Receive(t, payload)
    BY DEF Setup, Uptime, LinkLost, Receive, GivingUp, Goto
  <2>6. Restart => Proceeds
    OBVIOUS
  <2> HIDE DEF Proceeds
  <2> QED
    BY <2>1, <2>2, <2>3, <2>4, <2>5, <2>6 DEF Next, Main
<1> QED
  BY <1>1, StopInvariant, PTL DEF Spec, StopsProceed
=============================================================================
