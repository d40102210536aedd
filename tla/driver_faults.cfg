SPECIFICATION Spec
CONSTANTS
  Bauds <- MCBauds
  Settable <- MCSettable
  Speeds <- MCTwoSpeeds
  Coded <- MCBauds
  Addrs <- MCOneAddr
  DevBauds <- MCSettable
  Faults <- MCAll
  Calls <- MCTwoCalls
  Target = 19200
  Vmin = 48
  Chunk = 16
  RxMax = 2
INVARIANTS TypeOK OneOpenFd StaleFdIsNewFd
PROPERTY CallsReturn
CHECK_DEADLOCK FALSE
