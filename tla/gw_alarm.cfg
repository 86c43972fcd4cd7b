\* Two sensors and the alarm switch: the table, its lock and the flags.
SPECIFICATION Spec
CONSTANTS
  s1 = s1
  s2 = s2
  a1 = a1
  a2 = a2
  a3 = a3
  NULL = NULL
  Sensors <- TwoSensors
  Actuators <- NoNode
  Commands <- SensorAlarm
  Buttons <- TestOnly
  RegisterPolls = 1
  MaxCells = 0
SYMMETRY SensorSymmetry
INVARIANTS
  TypeOK
  FiredOnlyWhileEngaged
  AnnouncedBeforeLookup
PROPERTIES
  AcceptedMeansNamed
  TimeoutOnlyForSilent
  KeepsToRegistry
