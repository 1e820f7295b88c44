SPECIFICATION Spec
CONSTANTS
  t1 = t1
  t2 = t2
  None = None
  Thread <- MCThread
  Request <- MCRequest
  Dispositions <- MCDispositions
  AltStack <- MCAltStack
  Duration <- MCDuration
  Nsec = 3
  Freq = 2
  Width = 64
  Horizon = 4
  MaxShift = 3
  Infinite = 100
  MaxSent = 2
CHECK_DEADLOCK FALSE
INVARIANTS
  SleepInv
  FirstSignalWakes
  PendingMatchesQueue
  FramesUnwind
PROPERTIES
  NotEarly
  SleepEnds
  SignalTaken
