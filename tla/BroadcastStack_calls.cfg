CONSTANTS
  p1 = p1  p2 = p2
  m1 = m1  m2 = m2  m3 = m3  m4 = m4  m5 = m5
  NoMsg = NoMsg
  NoOrigin = NoOrigin
  Process = {p1, p2}
  Self = p1
  Msg = {m1, m2, m3, m4, m5}
  Origin <- OwnAndOther
  Payload <- Numbers
  K = 3
  nPacketsPerBroadcast = 2
  Workloads = {3}
  Mortal = {}
SPECIFICATION StackSpec
INVARIANTS NoMissedDelivery OnlyListenerDelivers CallsFit
PROPERTIES NoDuplication ImplementsFIFO
\* the system stops when all is delivered
CHECK_DEADLOCK FALSE
