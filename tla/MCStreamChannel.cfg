SPECIFICATION StreamFairSpec
CONSTANTS
  Streams = {s1, s2}
  Readers = {r1, r2}
  Chunks = 1
  ChanCap = 1
  QueueCap = 2
  MaxTries = 2
  End = End
  NoReader = NoReader
INVARIANTS
  OutputFaithful
PROPERTIES
  StreamEnds
  ReaderEnds
CHECK_DEADLOCK FALSE
