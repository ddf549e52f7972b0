SPECIFICATION Spec
CONSTANTS
  Procs = {p1, p2}
  None = None
  MaxAppends = 3
  MaxInodes = 3
SYMMETRY Symmetry
INVARIANTS AckedInLog CheckpointWhole
PROPERTIES ImplementsLog RefusedIsFrozen
