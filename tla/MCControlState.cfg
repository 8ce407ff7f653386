SPECIFICATION Spec
CONSTANTS
    worker = worker
    oldWorker = oldWorker
    Threads = {worker, oldWorker}
    Writers = {worker, oldWorker}
    Mute = Mute
    Volume = Volume
    Commands = {Mute, Volume}
    NoThread = NoThread
    NoSnapshot = NoSnapshot
    MaxRevision = 3
    MaxChange = 1
INVARIANTS ReadYourWrites BoundedOvertaking
PROPERTIES NoResurrection WritesAreServed
