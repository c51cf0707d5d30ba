SPECIFICATION Spec
CONSTANTS
  NumPackages = 1
  MaxArrivalRetries = 1
  OperatorCommands = {"start", "pause", "resume"}
  Outcomes = {"arrival_not_verified"}
  PatientOperator = FALSE
  MaxPauses = 1
PROPERTIES PausedMissionDispatchesNothing
