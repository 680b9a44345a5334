---------------------------- MODULE MCRollerRs485 ----------------------------
(* The kitchen's table of topics (Defines.h), with two rollers of its three. *)
EXTENDS RollerRs485

CONSTANTS salon, kuchniafront, kuchniabok, all, level, timeout, trigger, pir

Listed == {salon, kuchniafront, kuchniabok, all, level, timeout, trigger, pir}
Built  == [r \in 1 .. ROLLER_COUNT |-> salon]

(* "// Subscribe": a connected controller gets the messages of every topic *)
(* that Defines.h lists under that heading.                                *)
ListedSubscribed == link => Listed \subseteq subscribed
=============================================================================
