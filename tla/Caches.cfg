\* Two queries beside two indexings, or three indexings, or three lists; all queries allow
\* the same classes.
SPECIFICATION Spec
CONSTANTS
    Queries = {"query"}
    Files = {"guide", "manual"}
    Chunks <- MCChunks
    Class <- MCClass
    Vector <- MCVector
    Words <- MCWords
    VectorWeight = 65
    LexicalWeight = 35
    MinScore = 60
    TopK = 2
    Limit = 3
    Filters <- Everybody
    Fields = {1, 2}
    Indexings = {11, 12, 13, 14, 15}
    FileOf <- MCFileOf
    Ttl = 1
    MaxFlight = 1
    MaxNow = 3
    RetrievalFaults = {"embed", "search", "index"}
    Projects = {"project"}
    Global = "global"
    Lists = {21, 22, 23}
    Hour = 1
    MaxListing = 1
    MaxVersion = 1
    ListFaults = {"cache", "database"}
    Used <- MCUsed
CONSTRAINT Numbered
INVARIANTS AnswersRecent IndexingRepairs ListsRecent
CHECK_DEADLOCK FALSE
