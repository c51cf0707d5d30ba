SPECIFICATION Spec
CONSTANTS
  NumPackages = 1
  MaxArrivalRetries = 0
  OperatorCommands = {"start", "pause", "abort"}
  Outcomes = {}
  PatientOperator = FALSE
  MaxPauses = 1
INVARIANTS AbortedTasksStayCancelled
