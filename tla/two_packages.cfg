SPECIFICATION Spec
CONSTANTS
  NumPackages = 2
  MaxArrivalRetries = 0
  OperatorCommands = {"start", "pause", "resume", "abort", "pause_robot", "resume_robot"}
  Outcomes = {"failed", "cancelled"}
  PatientOperator = FALSE
  MaxPauses = 2
INVARIANTS
  ZoneBooksAgree
  ActiveTaskOwnsRobot
  HandlingIsPossible
  SucceededLeavesNothing
  CarrierOwnsPackage
  DashboardIsTruthful
  BlockersAreTruthful
  BlockedWaitsForWork
  StandstillIsCurable
  FailureIsShown
  DependenciesAreKept
  PhaseIsTruthful
  PackagesInv
  MissionProgressInv
PROPERTIES
  ImplementsHandoff
  ImplementsTransferZone
  ProgressNeverGoesBack
