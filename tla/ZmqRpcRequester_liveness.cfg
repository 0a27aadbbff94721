\* A call with a timeout and one without; acks get lost; close() at any time.
SPECIFICATION FairSpec
CONSTANTS
  c1 = c1  c2 = c2
  Calls = {c1, c2}
  Quick = {c1}
  Timeout <- TimeoutOf
  AckTimeout = 2
  OwnsContext = FALSE
  AckKinds = {"ack"}
  ReplyKinds = {"payload"}
  SendRoom = 2
  AcksGetLost = TRUE
  SocketsRunOut = FALSE
  IoFaults = FALSE
  CloseSentinel = CloseSentinel
  NoCall = NoCall
PROPERTIES
  CloseCompletes
  BoundedCallReturns
\* After close() every thread may be done, or wait for ever.
CHECK_DEADLOCK FALSE
