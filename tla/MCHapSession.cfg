SPECIFICATION Spec
CONSTANTS
    Tids = {1}
    Bodies = {"on", "off"}
    MaxConnections = 2
    MaxFrames = 3
INVARIANT NoncesAgree
PROPERTIES AnswersOpenUntilDropped CommandsAreOfConnection WritesKeepContract RequestsAreAnswered
\* After the last connection nothing is left to do.
CHECK_DEADLOCK FALSE
