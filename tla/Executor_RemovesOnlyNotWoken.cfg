SPECIFICATION Spec
CONSTANTS
  a = a
  b = b
  idle = idle
  Task <- MCTask
  Idle = idle
  NoTask = NoTask
  NoTid = NoTid
  Tid = {t0, t1, t2}
  t0 = t0
  t1 = t1
  t2 = t2
  Scale <- MCScale
  Slice = {1}
  Delta = {0, 1, 2}
  MaxRun = 2
  Thresh = 2
  MinGranularity = 1
  UsizeMax = 4
  WMULT_SHIFT = 14
  Nice <- MCNice
  SCHED_MIN_GRANULARITY = 750
  SCHED_NR_LATENCY = 2
SYMMETRY Symmetry
CHECK_DEADLOCK FALSE
INVARIANT RemovesOnlyNotWoken
