\* Clients take turns on files registered without a checksum; two server processes, one of which may be killed; any
\* statement of a call or a loop may throw.
SPECIFICATION SafeSpec
CONSTANTS
    Files = {f1, f2}
    Calls = {u1, u2, u3}
    Contents = {c1, c2}
    Instances = {i1, i2}
    NoFile = NoFile
    NoContent = NoContent
    NoCall = NoCall
    StorageDriver = "local"
    Faults = {"request", "stub", "read", "mark"}
    SerialClients = TRUE
    MaxCrashes = 1
SYMMETRY Symmetry
INVARIANTS DeclaredIntegrity CompletedAnswerIsTrue SettledFileAgrees
PROPERTIES OriginalImmutable
CHECK_DEADLOCK FALSE
