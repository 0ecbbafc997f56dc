CONSTANTS
  Origin = {p1, p2}
  NoOrigin = NoOrigin
  K = 4
SPECIFICATION Spec
INVARIANTS FifoOrder NoneHeldBack
PROPERTIES EventuallyDelivered
\* the system stops when all has arrived
CHECK_DEADLOCK FALSE
