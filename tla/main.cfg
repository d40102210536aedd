SPECIFICATION MainSpec
CONSTANTS
  Bauds <- MCBauds
  Settable <- MCSettable
  Speeds <- MCSpeeds
  Coded <- MCBauds
  Addrs <- MCAddrs
  DevBauds <- MCBauds
  Faults <- MCLossy
  Calls <- MCCalls
  Target = 19200
  Vmin = 48
  Chunk = 16
  RxMax = 2
PROPERTIES LoopKeepsAsking SamplesFlow
CHECK_DEADLOCK FALSE
