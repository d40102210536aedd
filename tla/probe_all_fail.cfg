SPECIFICATION Spec
CONSTANTS
  Bauds <- MCBauds
  Settable <- MCSettable
  Speeds <- MCSpeeds
  Coded <- MCBauds
  Addrs <- MCAddrs
  DevBauds <- MCSettable
  Faults <- MCLose
  Calls <- MCFewCalls
  Target = 19200
  Vmin = 48
  Chunk = 16
  RxMax = 2
INVARIANT GivenFdIsOpen
CHECK_DEADLOCK FALSE
