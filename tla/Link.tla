--------------------------------- MODULE Link ---------------------------------
(***************************************************************************)
(* What a controller may rely on about its connection to the broker, as    *)
(* client.connected() shows it to loop(): it may be lost at any time, and  *)
(* comes back only as the result of an attempt of mqttConnect(), which     *)
(* setup() makes first and loop() makes only without a connection.         *)
(* Nothing in the code: module RollerController uses a link of this kind   *)
(* and module MqttLink implements it.                                      *)
(***************************************************************************)
VARIABLE state

Init == state = "setup"

Lose == state = "up" /\ state' = "down"

Attempt == state = "down" /\ state' = "trying"

Result == state \in {"setup", "trying"} /\ state' \in {"up", "down"}

Reset == state' = "setup"

Next == Lose \/ Attempt \/ Result \/ Reset

Spec == Init /\ [][Next]_state
=============================================================================
