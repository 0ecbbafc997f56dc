CONSTANTS
  p1 = p1  p2 = p2  p3 = p3  m1 = m1
  NoPacket = NoPacket
  Process = {p1, p2}
  Workload <- RoundTrip
  Relays <- RelayBack
  Stoppable = {p2}
SPECIFICATION Spec
PROPERTIES ImplementsReliableLink QuietAfterNextPacket
