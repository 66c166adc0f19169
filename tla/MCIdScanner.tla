---------------------------- MODULE MCIdScanner ----------------------------
(* Instances of IdScanner for TLC. *)
EXTENDS IdScanner

CONSTANTS c1, c2, cardA, cardB

OneCaller == {c1}
TwoCallers == {c1, c2}
NoCards == {}
OneCard == {cardA}
TwoCards == {cardA, cardB}
OnePathSensor == {"sensor2"}
AllPathSensors == {"sensor2", "sensor3", "sensor4"}
=============================================================================
