\* Three actuators that come and go under a ringing alarm.
SPECIFICATION Spec
CONSTANTS
  s1 = s1
  s2 = s2
  a1 = a1
  a2 = a2
  a3 = a3
  NULL = NULL
  Sensors <- NoNode
  Actuators <- ThreeActuators
  Commands <- ActuatorAlarm
  Buttons <- BothButtons
  RegisterPolls = 0
  MaxCells = 3
SYMMETRY ActuatorSymmetry
INVARIANTS
  ListedOnce
  UnlinkIsExact
  NoLiveActuatorSkipped
