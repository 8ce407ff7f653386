SPECIFICATION MCSpec
CONSTANTS
    Nodes = {1, 2, 3, 4}
    Worlds <- MCWorlds
    TreeMaxHeight = 3
    Lease = 1
    NoNode = 0
    Frames <- MCFrames
    MaxDisturbances = 1
INVARIANTS ClockIsOfCluster SettledIsForest
PROPERTY Agreement
