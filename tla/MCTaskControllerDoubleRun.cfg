SPECIFICATION Spec
CONSTANTS
  Tasks = {t1, t2}
  Sessions = {s1}
  Runners = {r1, r2}
  None = None
  InitialStatuses = {"submitted"}
  ClientStatuses = {}
SYMMETRY Symmetry
PROPERTIES WorkingSessionRejectsRun
