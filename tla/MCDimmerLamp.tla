----------------------------- MODULE MCDimmerLamp -----------------------------
(* MCDimmerLamp.cfg: the three lamps with levels 0 to 3, a byte of 3       *)
(* values, an unsigned long of 16 and, on the AVR, minutes that overflow.  *)
(* MCDimmerLampLevels.cfg: all 255 levels on the AVR.                      *)
EXTENDS DimmerLamp

MCMinutes == {-1, 0, 1, 2}
MCValues  == {-1, 0, 1, 2, 3}

AllKinds  == {"avr", "esp", "pir"}
MCTimeout == [k \in AllKinds |-> CASE k = "avr" -> 1 [] k = "esp" -> 0 [] k = "pir" -> 2]
MCIntMax  == [k \in AllKinds |-> IF k = "avr" THEN 3 ELSE 100]

AvrOnly     == {"avr"}
NoTimeout   == [k \in AvrOnly |-> 0]
Int16       == [k \in AvrOnly |-> 32767]
PercentValues == {-1, 0, 50, 100}
=============================================================================
