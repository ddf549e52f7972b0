SPECIFICATION Spec
CONSTANTS
  Runs = {r1, r2, r3}
  Calls = {c1, c2}
  Idempotent = {c1}
  None = None
  MaxIterations = 2
  MaxModelRetries = 1
  MaxToolRetries = 1
  MaxLog = 6
SYMMETRY Symmetry
CONSTRAINT Bounded
CHECK_DEADLOCK FALSE
INVARIANTS NonIdempotentOnce LegalDialogue SettledOnce UnannouncedIsLeftover
