SPECIFICATION Spec
CONSTANTS
  Tasks = {t1, t2}
  Sessions = {s1}
  Threads = {th1, th2}
  None = None
  InitialStatuses = {"submitted"}
  ClientStatuses = {"input-required"}
  MaxOps = 5
SYMMETRY Symmetry
INVARIANTS SnapshotRestorable StoreSound
PROPERTIES RestartKeepsWorkingSlots
