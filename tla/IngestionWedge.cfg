\* One read of a file row fails inside the loop.
SPECIFICATION Spec
CONSTANTS
    Files = {f1, f2}
    Calls = {1, 2, 3}
    Contents = {c1}
    Instances = {i1}
    NoFile = NoFile
    NoContent = NoContent
    NoCall = 0
    StorageDriver = "local"
    Faults = {"read"}
    SerialClients = FALSE
    MaxCrashes = 0
CONSTRAINT Numbered
PROPERTY QueuedIsServed
CHECK_DEADLOCK FALSE
