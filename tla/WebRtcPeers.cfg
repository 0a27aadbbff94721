\* Both kinds of signaler; the answering end may see the link fail first.
SPECIFICATION FairSpec
CONSTANTS
  a = a
  b = b
  Peers = {a, b}
  Caller = a
  FirstToNotice = {b}
  EarlyLoss = FALSE
  JoinModes = {TRUE, FALSE}
  Reconnect = TRUE
  MaxLinkLosses = 1
  MaxChildren = 3
  MaxQueue = 1
INVARIANTS
  RemoteDescIsReal
  ReadyIsOfThisChild
PROPERTIES
  PeersConnect
  Reconnects
\* A relay that announces joins falls silent once the peers are connected.
CHECK_DEADLOCK FALSE
