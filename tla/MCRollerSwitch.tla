---------------------------- MODULE MCRollerSwitch ----------------------------
(* A byte of 3 values makes both time-outs two bytes long, so that a tick  *)
(* can tear a load or a store; the relays change on the second tick.       *)
EXTENDS RollerSwitch
=============================================================================
