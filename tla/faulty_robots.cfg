SPECIFICATION FairSpec
CONSTANTS
  NumPackages = 2
  MaxArrivalRetries = 1
  OperatorCommands = {"start"}
  Outcomes = {"arrival_not_verified", "failed"}
  PatientOperator = FALSE
  MaxPauses = 0
INVARIANTS
  RunningMissionHasWork
  UnpausedInv
PROPERTIES
  MissionEnds
