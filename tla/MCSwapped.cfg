SPECIFICATION DaemonSpec
CONSTANTS
  Neighbors = {p}
  Worlds <- MCWorlds
  Channels = {44, 149}
  Anchor = 44
  MaxErrors = 1
  MaxPlugs = 2
  MaxCallFaults = 0
PROPERTIES
  AlwaysListens
CHECK_DEADLOCK FALSE
