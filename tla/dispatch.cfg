SPECIFICATION Spec
CONSTANTS
  Move = {m1, m2}
  Handling = {h1}
  RmfTask = {x1, x2}
  NoCommand = NoCommand
  NoTask = NoTask
SYMMETRY Symmetry
INVARIANTS
  TypeOK
  ActedOnce
  DecisionsArrive
PROPERTIES
  ImplementsCommandLife
