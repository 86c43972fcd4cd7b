\* What register_node reports against what the table and the list hold.
SPECIFICATION NapSpec
CONSTANTS
  s1 = s1
  s2 = s2
  a1 = a1
  a2 = a2
  a3 = a3
  NULL = NULL
  Sensors <- OneSensor
  Actuators <- OneActuator
  Commands <- NodeRegistration
  Buttons <- NoButton
  RegisterPolls = 1
  MaxCells = 1
INVARIANT ReportedNodeIsKnown
