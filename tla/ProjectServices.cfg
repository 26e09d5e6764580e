\* Sign-off: four signatures, taking turns and overlapping.  Facts: three calls, in
\* turns and overlapping; statements throw and processes are killed.  Documentation: two
\* projects whose folders may coincide, two calls, a change of the metadata.
\* The seed: a run that may break off anywhere, another one, and a client's change.
SPECIFICATION ServicesSpec
CONSTANTS
    Users = {u1, u2, u3}
    Empty = Empty
    Missing = Missing
    Unsigned = Unsigned
    Signings = {1, 2, 3, 4}
    TurnModes = {TRUE, FALSE}
    Conditions <- MCConditions
    Form <- MCForm
    Reads <- MCReads
    PartOf <- MCPartOf
    Text <- MCText
    Columns = {"psValue"}
    Extras = {"risk"}
    Values <- MCValues
    Dtos <- MCDtos
    Calls = {1, 2, 3}
    NoCall = 0
    Rules <- MCConditions
    Faults = {"project", "fact", "kill"}
    Projects = {p1, p2}
    Metas <- MCMetas
    Ready <- MCReady
    RootOf <- MCRootOf
    PathOf <- MCPathOf
    Copied <- MCCopied
    Asked <- MCAsked
    Main = "main"
    Names = {"photo"}
    Stamps = {1, 2}
    Requests = {1, 2}
    MaxChanges = 1
    DocFaults = {"fail"}
    None = None
    Attempts = 2
    MaxTouched = 1
CONSTRAINT Numbered
SYMMETRY Symmetric
INVARIANTS CompleteByThree StepsInOrder  SavingRepairs TurnsKnowWhatWasStated KnownFactsDecide RowsHaveFiles AnswersAreComplete RegenerationRepairs SeedingRepairs
CHECK_DEADLOCK FALSE
