------------------------------- MODULE MCRoller -------------------------------
(* Two rollers; a time-out of 3 ticks, of which a call can eat one: the    *)
(* smallest values at which a tick falls before, inside and after each     *)
(* step of a call and the time-out still expires between calls.            *)
EXTENDS Roller
=============================================================================
