\* The offering end sees the link fail first.
SPECIFICATION FairSpec
CONSTANTS
  a = a
  b = b
  Peers = {a, b}
  Caller = a
  FirstToNotice = {a}
  EarlyLoss = FALSE
  JoinModes = {FALSE}
  Reconnect = TRUE
  MaxLinkLosses = 1
  MaxChildren = 3
  MaxQueue = 1
PROPERTIES
  Reconnects
CHECK_DEADLOCK FALSE
