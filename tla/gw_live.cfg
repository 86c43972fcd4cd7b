\* Progress with one sensor, one actuator and the test button: both are authorized, the alarm engaged.
SPECIFICATION FairSpec
CONSTANTS
  s1 = s1
  s2 = s2
  a1 = a1
  a2 = a2
  a3 = a3
  NULL = NULL
  Sensors <- OneSensor
  Actuators <- OneActuator
  Commands <- GrowingAlarm
  Buttons <- TestOnly
  RegisterPolls = 0
  MaxCells = 1
PROPERTIES
  TapRings
  SilentSensorRings
