---------------------------- MODULE MCSensorNode ----------------------------
(* Small instances of SensorNode for TLC.                                  *)
EXTENDS SensorNode

CONSTANTS TOP, LEFT

BothBuilds == {"mpu", "ir"}
OnlyTap    == {"mpu"}
OneSide    == {TOP}
TwoSides   == {TOP, LEFT}
=============================================================================
