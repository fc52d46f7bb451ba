CONSTANTS
  Names = {f}
  Clients = {c1, c2}
  None = None
  MaxUploads = 2
SPECIFICATION Spec
SYMMETRY Symmetry
INVARIANT MoveLosesNothing
