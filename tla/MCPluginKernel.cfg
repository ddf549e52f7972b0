SPECIFICATION MCSpec
CONSTANTS
  Plugins = {1, 2, 3}
  Keys = {1, 2}
  Callers = {c1, c2}
  Nobody = Nobody
  MaxDeclared = 5
SYMMETRY MCSymmetry
INVARIANTS
  RefusedUnlessFits
  RegistrySound
  NothingLeft
