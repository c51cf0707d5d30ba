SPECIFICATION Spec
CONSTANTS
  NumPackages = 1
  MaxArrivalRetries = 0
  OperatorCommands = {"start", "abort"}
  Outcomes = {"failed"}
  PatientOperator = FALSE
  MaxPauses = 0
PROPERTIES AbortIsFinal
