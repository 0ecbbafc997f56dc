CONSTANTS
  p1 = p1  p2 = p2  p3 = p3  t1 = t1  t2 = t2
  Process = {p1, p2, p3}
  Stresser = {t1, t2}
  attempts = 1
  nPacketsPerBroadcast = 10
  Workloads = {0, 11}
  nLogged = 1
  NoAttempt = NoAttempt
SPECIFICATION Spec
INVARIANTS MinorityTerminated StartTogether
INVARIANTS NotStoppedAtSigterm FinishedOrExited RunEnds
SYMMETRY Symmetry
