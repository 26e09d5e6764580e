\* One run and one resolver at a time; every query may throw.
SPECIFICATION Spec
CONSTANTS
    co2 = co2
    water = water
    fdv = fdv
    full = full
    lite = lite
    Rules = {1, 2}
    Facts = {co2}
    When <- MCWhen
    ConflictKey <- MCConflictKey
    Value <- MCValue
    Filters <- MCFilters
    NoKey = NoKey
    NoValue = NoValue
    NoFact = NoFact
    NoOne = NoOne
    Runs = {1, 2, 3}
    Resolvers = {v1, v2}
    Faults = {"step"}
    SerialRuns = TRUE
    SerialResolvers = TRUE
CONSTRAINT Numbered
INVARIANTS LatestRunWins OverrideTraceable
PROPERTIES EvaluationsSettle
CHECK_DEADLOCK FALSE
