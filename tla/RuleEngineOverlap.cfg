\* Runs and resolvers overlap; queries throw and processes are killed.
SPECIFICATION SafeSpec
CONSTANTS
    co2 = co2
    water = water
    fdv = fdv
    full = full
    lite = lite
    Rules = {1, 2, 3, 4}
    Facts = {co2, water}
    When <- MCWhen
    ConflictKey <- MCConflictKey
    Value <- MCValue
    Filters <- MCFilters
    NoKey = NoKey
    NoValue = NoValue
    NoFact = NoFact
    NoOne = NoOne
    Runs = {1, 2}
    Resolvers = {v1, v2}
    Faults = {"step", "catch", "kill"}
    SerialRuns = FALSE
    SerialResolvers = FALSE
SYMMETRY Symmetry
CONSTRAINT Numbered
INVARIANTS EvaluationMatchesModel ClashesReported DisabledStaysOut
CHECK_DEADLOCK FALSE
