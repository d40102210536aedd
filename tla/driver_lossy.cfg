SPECIFICATION Spec
CONSTANTS
  Bauds <- MCBauds
  Settable <- MCSettable
  Speeds <- MCSpeeds
  Coded <- MCBauds
  Addrs <- MCAddrs
  DevBauds <- MCBauds
  Faults <- MCLossy
  Calls <- MCFewCalls
  Target = 19200
  Vmin = 48
  Chunk = 16
  RxMax = 2
INVARIANTS SampleIsFresh NothingLeftBehind
CHECK_DEADLOCK FALSE
