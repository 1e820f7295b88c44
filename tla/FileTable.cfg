SPECIFICATION Spec
CONSTANTS
  t1 = t1
  t2 = t2
  None = None
  Parent = p1
  Child = p2
  ParentThread <- MCParentThread
  FirstThread = t1
  ChildThread = t3
  Fd <- MCFd
  MaxTyped = 2
  MaxCalls = 1
CHECK_DEADLOCK FALSE
INVARIANTS
  FileInv
  CharsInOrder
  OffsetCounts
  ExitedHoldsNothing
PROPERTIES
  InputConsumed
  IntrTaken
