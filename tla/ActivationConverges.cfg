SPECIFICATION FairSpec
CONSTANTS
  m1 = m1
  m2 = m2
  NoMember = NoMember
  Members = {m1}
  Order <- MCOrder1
  Zellij = FALSE
  FaultKinds = {"crash"}
  MaxFaults = 1
PROPERTIES Converges
CHECK_DEADLOCK FALSE
