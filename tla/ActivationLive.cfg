SPECIFICATION FairSpec
CONSTANTS
  m1 = m1
  m2 = m2
  NoMember = NoMember
  Members = {m1, m2}
  Order <- MCOrder2
  Zellij = TRUE
  FaultKinds = {"crash"}
  MaxFaults = 1
PROPERTIES Settles CommitServes
CHECK_DEADLOCK FALSE
