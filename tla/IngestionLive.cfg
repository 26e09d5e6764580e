\* Every call's continuation runs: the queue's promise, answers and outcomes.
SPECIFICATION Spec
CONSTANTS
    Files = {f1, f2}
    Calls = {1, 2, 3}
    Contents = {c1}
    Instances = {i1}
    NoFile = NoFile
    NoContent = NoContent
    NoCall = 0
    StorageDriver = "supabase"
    Faults = {"request", "stub"}
    SerialClients = FALSE
    MaxCrashes = 0
CONSTRAINT Numbered
INVARIANTS RunningHasOwner
PROPERTIES ServesQueue CallsEnd JobsSettle
CHECK_DEADLOCK FALSE
