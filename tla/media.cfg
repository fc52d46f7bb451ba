CONSTANTS
  Names = {f, g}
  Clients = {c1, c2}
  None = None
  MaxUploads = 3
SPECIFICATION Spec
SYMMETRY Symmetry
CONSTRAINT Focus
INVARIANTS
  TypeOK
  StatusTellsTheTruth
PROPERTY MovesNeverOverwrite
