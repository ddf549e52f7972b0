SPECIFICATION QuestionFairSpec
CONSTANTS
  Publishers = {p1, p2}
  Consumers = {c1, c2}
  Payloads = {q1, q2}
  MaxSeq = 4
  None = None
  Corrupt = Corrupt
INVARIANTS
  LogWithOffset
  AckedReadable
  AnswerMatches
PROPERTY
  QuestionEnds
CHECK_DEADLOCK FALSE
