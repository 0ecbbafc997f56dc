CONSTANTS
  p1 = p1  p2 = p2  p3 = p3
  Process = {p1, p2, p3}
  Configs <- Chains
  maxPackets <- OneEach
  Mortal = {p2}
  Logs = {}
SPECIFICATION Spec
PROPERTIES AllDelivered
\* the system stops when all is delivered
CHECK_DEADLOCK FALSE
