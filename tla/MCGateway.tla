----------------------------- MODULE MCGateway -----------------------------
(* Small instances of Gateway for TLC.                                     *)
EXTENDS Gateway, TLC

CONSTANTS s1, s2, a1, a2, a3

NoNode         == {}
OneSensor      == {s1}
TwoSensors     == {s1, s2}
OneActuator    == {a1}
TwoActuators   == {a1, a2}
ThreeActuators == {a1, a2, a3}

SensorSymmetry   == Permutations(TwoSensors)
ActuatorSymmetry == Permutations(ThreeActuators)

SwitchCommands   == {"engage", "disengage"}
GrowingAlarm     == {"auth_sensor", "auth_actuator", "engage"}
SensorAlarm      == SensorCommands \cup SwitchCommands
ActuatorAlarm    == ActuatorCommands \cup SwitchCommands
NodeRegistration == SensorCommands \cup ActuatorCommands

NoButton    == {}
TestOnly    == {"btn_test"}
BothButtons == {"btn_register", "btn_test"}

(* The behaviours in which registrations come only while register_node     *)
(* naps, as the operator expects.                                          *)
Registers == \/ pc["gcoap"] = "recv" /\ pc'["gcoap"] = "reg_get"
             \/ head' = Len(cells) + 1

NapSpec == Init /\ [][Next /\ (Registers => pc["shell"] = "nap")]_vars
=============================================================================
