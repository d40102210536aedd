SPECIFICATION Spec
CONSTANTS
  BufSize = 64
  Codes <- MCCodes
  Addrs <- MCAddrs
  DataSet <- MCData
  Flips <- MCFlips
  Values3 <- MCValues3
  Values4 <- MCValues4
  Others <- MCOthers
INVARIANTS SentAsDescribed RoundTrip DamageNoticed Faithful
CHECK_DEADLOCK FALSE
