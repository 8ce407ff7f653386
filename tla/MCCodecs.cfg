SPECIFICATION Spec
CONSTANTS
    Uploads <- MCUploads
    Beside <- MCBeside
    Piece = 2
    MaxBody = 11
    MaxExpanded = 9
    Sender = sender
    Hearer = hearer
    Bystander = bystander
    Group = group
    NoAddr = NoAddr
    Awdl = awdl
    OtherBss = other
    Captured = captured
    States <- MCStates
    Radios <- MCRadios
    Layouts <- MCLayouts
    Aggregates <- MCAggregates
    OtherByte = 81
    Byte = 256
    Frames = {1, 2}
    Foreign = {8, 9}
    Room = 3
    Cap = 1
    Timeout = 2
    MaxTime = 2
    HostFrames <- MCHostFrames
    Visits <- MCVisits
    Social = {6, 44}
    CacheTtl = 4
    TtlCap = 4
    MinGap = 2
    MaxClock = 6
    Slots <- MCSlots
    Eaw = 4
    PsfInterval = 7
    CleanInterval = 15
    MaxHeldUp = 5
    MaxTicks = 21
    Loggers = {t1, t2}
    RingCap = 2
    DefaultN = 1
    Port = 8770
    MaxEvents = 3
INVARIANTS UploadIsWhole BarIsHonest LinkIsFaithful RepeatsAreTimely TellsTheTruth
CHECK_DEADLOCK FALSE
