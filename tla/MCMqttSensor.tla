----------------------------- MODULE MCMqttSensor -----------------------------
(* A sensor that sends changes, and one that sends what it measures or the *)
(* uptime, whose periods take two bytes.                                   *)
EXTENDS MqttSensor

CONSTANTS s1, s2

MCSensors == {s1, s2}
MCTab     == <<s1, s2>>
MCPeriod  == [s \in MCSensors |-> 3]
MCModes   == {[s \in MCSensors |-> IF s = s1 THEN "timeAndChange" ELSE other] :
                other \in {"time", "change"}}
=============================================================================
