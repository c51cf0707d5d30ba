SPECIFICATION FairSpec
CONSTANTS
  NumPackages = 11
  MaxArrivalRetries = 0
  OperatorCommands = {"start"}
  Outcomes = {}
  PatientOperator = FALSE
  MaxPauses = 0
INVARIANTS
  CompletesWithItsTasks
PROPERTIES
  MissionCompletes
  ImplementsFairHandoff
