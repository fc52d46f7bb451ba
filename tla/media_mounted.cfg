CONSTANTS
  Names = {f}
  Clients = {c1}
  None = None
  MaxUploads = 1
SPECIFICATION Spec
SYMMETRY Symmetry
INVARIANT MountedMediaStays
