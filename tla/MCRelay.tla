-------------------------------- MODULE MCRelay --------------------------------
(* The two sirens of the alarm controller; a time-out of four ticks that a *)
(* message may lengthen or switch off.  Numbers have two parts of four     *)
(* values each, and both parts of every time-out differ from another's.    *)
EXTENDS Relay
=============================================================================
