CONSTANTS
  nPacketsPerBroadcast = 10
  Workloads <- TwoGroups
SPECIFICATION Spec
PROPERTIES EventuallyFinished
\* the system stops when all is delivered
CHECK_DEADLOCK FALSE
