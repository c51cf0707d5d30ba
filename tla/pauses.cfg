SPECIFICATION FairSpec
CONSTANTS
  NumPackages = 2
  MaxArrivalRetries = 0
  OperatorCommands = {"start", "pause", "resume", "pause_robot", "resume_robot"}
  Outcomes = {}
  PatientOperator = TRUE
  MaxPauses = 3
INVARIANTS
  RunningMissionHasWork
PROPERTIES
  ResumedMissionFinishes
