SPECIFICATION Spec
CONSTANTS
  Kernel <- MCKernel
  FirstDelay <- MCFirstDelay
  Idle = "idle"
  Delay <- MCDelay
  NumIrqs = 288
  UartCell <- MCUartCell
  RtcCell <- MCRtcCell
  RxLevel = 2
  RxDepth = 2
  Script <- MCScript
  None = None
INVARIANTS
  NoSelfDeadlock
  MaskRestored
  LinesReachable
  CharNotStranded
  EchoInOrder
PROPERTIES
  MessageWhole
  DelayExpires
  TypedEchoed
