SPECIFICATION Spec
CONSTANTS
  Neighbors = {p, q}
  Worlds <- MCWorlds
  Channels = {44, 149}
  Anchor = 44
  MaxErrors = 2
  MaxPlugs = 3
  MaxCallFaults = 3
  Services = {1, 2}
  Guardians = {1, 2}
  None = 0
  MaxRounds = 2
  Budgets <- MCBudgets
INVARIANTS
  NeighborsArePeers
PROPERTIES
  DaemonRecovers
  RadioIsGivenBack
  ResidentReceives
CHECK_DEADLOCK FALSE
