CONSTANTS
  p1 = p1  p2 = p2  p3 = p3  m1 = m1
  NoPacket = NoPacket
  Process = {p1, p2, p3}
  Workload <- FanOut
  Relays = {}
  Stoppable = {p3}
SPECIFICATION Spec
INVARIANTS NeverForgotten RecordedIsHandedUp
PROPERTIES NoDuplication
