\* Two generations and a client, taking turns and overlapping.
SPECIFICATION Spec
CONSTANTS
    Template <- MCTemplate
    Written <- MCWritten
    Found = {x}
    Values = {zero, x}
    Zero = zero
    Forms = {p}
    NoValue = NoValue
    NoField = NoField
    NoForm = NoForm
    NoData = NoData
    Generations = {g1, g2}
    Views = {v1}
    Statuses = {"DRAFT"}
    MaxModels = 2
    TurnModes = {TRUE, FALSE}
SYMMETRY Symmetry
INVARIANTS HistoryNumbered TurnsBackUp TurnsBasis
PROPERTIES TurnsKeepFilled
CHECK_DEADLOCK FALSE
