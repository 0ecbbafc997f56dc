CONSTANTS
  p1 = p1  p2 = p2  p3 = p3  m1 = m1
  NoMsg = NoMsg
  Process = {p1, p2, p3}
  Msg = {m1}
  Origin <- OneMessage
  Mortal = {p1, p2}
SPECIFICATION Spec
INVARIANTS UniformMajority
PROPERTIES UniformAgreement Validity ImplementsURB
\* the system stops when all is delivered
CHECK_DEADLOCK FALSE
