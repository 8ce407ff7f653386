SPECIFICATION Spec
CONSTANTS
    Servers = {1, 2, 3, 4}
    NoServer = 0
    Services = 2
    MaxAttempts = 2
    ProtocollessLimit = 2
    MaxDisturbances = 2
    Devices = {"iphone", "ipad"}
    NoDevice = "none"
    MaxGsn = 3
    MaxRestarts = 1
INVARIANTS
    AdvertisesWholeDatabase OneAdvertisement LateServersAreClosed
    StaleOnlyIfMissed
PROPERTIES AccessoryRecovers AdvertisingResumes
\* The probe may be destroyed for good.
CHECK_DEADLOCK FALSE
