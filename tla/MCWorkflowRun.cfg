SPECIFICATION Spec
CONSTANTS
  s = s  a = a  b = b  e = e  v1 = v1  v2 = v2
  Runs = {r1, r2, r3}
  Nodes <- MCNodes
  Workflows <- MCWorkflows
  Inputs = {v1, v2}
  Values = {v1, v2}
  None = None
  Header = Header
  Corrupt = Corrupt
  Modes = {"run", "stream_checkpointed"}
CONSTRAINT Bounds
SYMMETRY RunSymmetry
INVARIANTS
  ResumedRunConsistent
  CheckpointSound
  ToldIsRecorded
PROPERTY
  ImplementsOneRun
CHECK_DEADLOCK FALSE
