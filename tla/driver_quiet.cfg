SPECIFICATION Spec
CONSTANTS
  Bauds <- MCBauds
  Settable <- MCSettable
  Speeds <- MCSpeeds
  Coded <- MCBauds
  Addrs <- MCAddrs
  DevBauds <- MCSettable
  Faults <- MCQuiet
  Calls <- MCCalls
  Target = 19200
  Vmin = 48
  Chunk = 16
  RxMax = 2
INVARIANTS AnswerIsToTheCall AddressAgrees PortUsable
