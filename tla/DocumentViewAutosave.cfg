\* One view of one document, opened and saved, without edits; one failure, one generation elsewhere.
SPECIFICATION VSpec
CONSTANTS
    Slots = {1, 2, 3}
    StoredForms = {0, 1, 2}
    MaxEdits = 0
    MaxGenerated = 1
    MaxFailed = 1
INVARIANT AutosaveKeepsForm
CHECK_DEADLOCK FALSE
