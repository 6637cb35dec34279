SPECIFICATION Spec
CONSTANTS
  m1 = m1
  m2 = m2
  NoMember = NoMember
  Members = {m1, m2}
  Order <- MCOrder2
  Zellij = TRUE
  FaultKinds = {"crash", "io", "death"}
  MaxFaults = 2
INVARIANTS JournalValid OneListener ReceiptsTrue BridgeMatches TerminalIsTrue
PROPERTIES HandoverSpec
CHECK_DEADLOCK FALSE
