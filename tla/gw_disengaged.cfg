\* A disengaged alarm against the causes the other threads were about to store.
SPECIFICATION Spec
CONSTANTS
  s1 = s1
  s2 = s2
  a1 = a1
  a2 = a2
  a3 = a3
  NULL = NULL
  Sensors <- OneSensor
  Actuators <- NoNode
  Commands <- SensorAlarm
  Buttons <- NoButton
  RegisterPolls = 1
  MaxCells = 0
INVARIANT DisengagedIsQuiet
