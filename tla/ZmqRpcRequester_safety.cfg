\* Two calls, one with a timeout; acks and replies may be invalid.
SPECIFICATION Spec
CONSTANTS
  c1 = c1  c2 = c2
  Calls = {c1, c2}
  Quick = {c1}
  Timeout <- TimeoutOf
  AckTimeout = 2
  OwnsContext = TRUE
  AckKinds = {"ack", "badAck"}
  ReplyKinds = {"payload", "invalid"}
  SendRoom = 1
  AcksGetLost = FALSE
  SocketsRunOut = TRUE
  IoFaults = TRUE
  CloseSentinel = CloseSentinel
  NoCall = NoCall
INVARIANTS
  NoPendingLeft
  NoSleepOnVerdict
PROPERTIES
  ImplementsRpcCall
\* Every call may be over, or wait for ever, and the requester closed.
CHECK_DEADLOCK FALSE
