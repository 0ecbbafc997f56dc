CONSTANTS
  p1 = p1  p2 = p2  p3 = p3
  Process = {p1, p2, p3}
  Configs <- Mixes
  maxPackets <- OneTwoOne
  Mortal = {p2}
  Logs <- ShortLogs
SPECIFICATION Spec
INVARIANTS CausalOrder ClockCountsLog NothingLost CausallyClosed OutputsValidate ChecksMeanOrder
PROPERTIES NeverUnblocked
\* the system stops when all is delivered
CHECK_DEADLOCK FALSE
