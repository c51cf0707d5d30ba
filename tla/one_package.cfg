SPECIFICATION Spec
CONSTANTS
  NumPackages = 1
  MaxArrivalRetries = 1
  OperatorCommands = {"start", "pause", "resume", "abort", "pause_robot", "resume_robot"}
  Outcomes = {"arrival_not_verified", "failed", "cancelled"}
  PatientOperator = FALSE
  MaxPauses = 2
INVARIANTS
  TypeOK
  Inv
  ZoneExclusive
  OneCommandPerRobot
PROPERTIES
  HeldRobotOnlyRetries
