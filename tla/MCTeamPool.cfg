SPECIFICATION PoolFairSpec
CONSTANTS
  Members = {m1, m2, m3}
  Closers = {c1}
  Tasks = {t1, t2}
  Launches = {l1, l2}
  NoLaunch = NoLaunch
INVARIANTS
  GateSound
  RunsAccounted
PROPERTIES
  DrainEnds
