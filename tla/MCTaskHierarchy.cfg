SPECIFICATION Spec
CONSTANTS
  Tasks = {t1, t2, t3}
  Linkers = {l1, l2}
  None = None
SYMMETRY Symmetry
INVARIANTS SerialForest IndexesAgree
CHECK_DEADLOCK FALSE
