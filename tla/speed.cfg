SPECIFICATION Spec
CONSTANTS
  Robot = {"tb3_1", "tb3_2"}
  Input = {29, 30, 75, 100, 101}
  MaxRequests = 3
  MaxRestarts = 1
INVARIANTS
  TypeOK
  ConfirmedIsActual
  Inv
CHECK_DEADLOCK FALSE
