SPECIFICATION Spec
CONSTANTS
  InitProc = p0
  InitThread = t0
  Proc = {p0, p1, p2}
  Thread = {t0, t1, t2}
  NoProc = NoProc
  NoThread = NoThread
  MaxTid = 3
  Code = {7, 8}
CHECK_DEADLOCK FALSE
INVARIANTS ThreadsListed NoMissedEvent SoleWaiterSees TableComplete
PROPERTIES ExitCodeKept WaitReturns
