------------------------------ MODULE RollerMotor ------------------------------
(***************************************************************************)
(* What class roller promises about each motor, in terms of the two relays *)
(* alone: it starts only on a recent command, leaves "up" and "down" only  *)
(* through "stopped", except that a running-down motor may see both relays *)
(* for a moment on its way to "up", and is never driven longer than        *)
(* MaxDrive ticks after its last command.                                  *)
(***************************************************************************)
EXTENDS Integers

CONSTANTS Rollers, MaxDrive

VARIABLES
  drive,  \* what the two relays make of each motor
  age     \* ticks since the motor's last command, MaxDrive when long ago

vars == <<drive, age>>

Drive == {"stopped", "up", "down", "both"}

TypeOK == drive \in [Rollers -> Drive] /\ age \in [Rollers -> 0 .. MaxDrive]

Init ==
  /\ drive = [r \in Rollers |-> "stopped"]
  /\ age = [r \in Rollers |-> MaxDrive]

Becomes(r, from, to) ==
  /\ drive[r] = from
  /\ drive' = [drive EXCEPT ![r] = to]
  /\ UNCHANGED age

Command(r) == age' = [age EXCEPT ![r] = 0] /\ UNCHANGED drive

Start(r) == age[r] < MaxDrive /\ \E d \in {"up", "down"} : Becomes(r, "stopped", d)

Halt(r) == Becomes(r, "up", "stopped") \/ Becomes(r, "down", "stopped")

Reverse(r) == Becomes(r, "down", "both") \/ Becomes(r, "both", "up")

(* Time passes; the motors of S are switched off, and those left running   *)
(* still have a recent command.                                            *)
Tick ==
  /\ age' = [r \in Rollers |-> IF age[r] < MaxDrive THEN age[r] + 1 ELSE MaxDrive]
  /\ \E S \in SUBSET Rollers :
       drive' = [r \in Rollers |-> IF r \in S THEN "stopped" ELSE drive[r]]
  /\ \A r \in Rollers : drive'[r] # "stopped" => age'[r] < MaxDrive

PowerLoss ==
  /\ drive' = [r \in Rollers |-> "stopped"]
  /\ age' = [r \in Rollers |-> MaxDrive]

Next ==
  \/ \E r \in Rollers : Command(r) \/ Start(r) \/ Halt(r) \/ Reverse(r)
  \/ Tick
  \/ PowerLoss

Spec == Init /\ [][Next]_vars
=============================================================================
