\* Two generations and a client overlap.
SPECIFICATION Spec
CONSTANTS
    Template <- MCTemplate
    Written <- MCWritten
    Found = {x}
    Values = {zero, x}
    Zero = zero
    Forms = {p}
    NoValue = NoValue
    NoField = NoField
    NoForm = NoForm
    NoData = NoData
    Generations = {g1, g2}
    Views = {v1}
    Statuses = {"DRAFT"}
    MaxModels = 2
    TurnModes = {FALSE}
SYMMETRY Symmetry
INVARIANT ReplacedIsBackedUp
CHECK_DEADLOCK FALSE
