SPECIFICATION FairSpec
CONSTANTS
  Tasks = {t1, t2}
  Sessions = {s1, s2}
  Runners = {r1, r2}
  None = None
  InitialStatuses = {"submitted", "waiting"}
  ClientStatuses = {"submitted", "paused", "waiting", "input-required"}
INVARIANTS SlotConsistent FailedHasError WorkingIsExecuted
PROPERTIES FinalStays ImplementsSlots WorkingEnds
