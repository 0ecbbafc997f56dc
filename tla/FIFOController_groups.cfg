CONSTANTS
  nPacketsPerBroadcast = 10
  Workloads <- SeveralGroups
SPECIFICATION Spec
INVARIANTS Paced NumberedInOrder OneGroupAtATime SignalledAtEnd
PROPERTIES FinishedUnlessOvertaken
\* the system stops when all is delivered
CHECK_DEADLOCK FALSE
