SPECIFICATION Spec
CONSTANTS
    Devices = {"iphone"}
    Iids = {"brightness", "volume"}
    None = "none"
    MaxDisturbances = 1
INVARIANTS NoEventIsForgotten
PROPERTIES EventsAreDelivered
