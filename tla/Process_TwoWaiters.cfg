SPECIFICATION Spec
CONSTANTS
  InitProc = p0
  InitThread = t0
  Proc = {p0, p1, p2}
  Thread = {t0, t1, t2, t3}
  NoProc = NoProc
  NoThread = NoThread
  MaxTid = 4
  Code = {7}
SYMMETRY Symmetry
CHECK_DEADLOCK FALSE
INVARIANTS NoZombieAsleep
