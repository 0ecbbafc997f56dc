---------------------------- MODULE MCPerfectLink ----------------------------
(* Small instances of PerfectLink. *)
EXTENDS PerfectLink

CONSTANTS p1, p2, p3, m1

(* One message to two destinations: the packets differ in nothing but        *)
(* destinationID.                                                            *)
FanOut == {DataPacket(m1, p1, p2), DataPacket(m1, p1, p3)}

(* A message, and its relay back to the origin. *)
RoundTrip == {DataPacket(m1, p1, p2), DataPacket(m1, p2, p1)}

RelayBack == {DataPacket(m1, p2, p1)}

=============================================================================
