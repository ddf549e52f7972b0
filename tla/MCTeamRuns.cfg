SPECIFICATION Spec
CONSTANTS
  m1 = m1
  m2 = m2
  p1 = p1
  p2 = p2
  Callers = {p1, p2}
  Tasks = {1, 2}
  Members = {m1, m2}
  First = m1
  ReviewerSets <- MCReviewerSets
  Outputs <- MCOutputs
  Other = Other
  MaxVotes <- MCMaxVotes
  None = None
SYMMETRY Symmetry
INVARIANTS
  WorkInOrder
  SomethingClaimable
  ReportedIsRecorded
  ReviewSound
CHECK_DEADLOCK FALSE
CONSTRAINT OverlapOnOneTask
