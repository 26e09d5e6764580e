\* No page, and two events; or one page of six: one person at the inbox beside one event; two
\* documents, one there at first; three requests under way at once; two nodes; four audits;
\* two projects whose workspaces may be loaded at once.
SPECIFICATION PagesSpec
CONSTANTS
    Events = {"event", "second"}
    InboxEvents = {"event"}
    InboxAnswers <- MCInboxAnswers
    Codes = {"fdv", "hms"}
    NoCode = "none"
    Byhand = "byhand"
    Answers <- MCAnswers
    MaxByhand = 1
    Faults = {"start", "work", "review", "kill"}
    Pipes = {TRUE, FALSE}
    MaxOps = 3
    MaxForeign = 1
    InboxFaults = {"projects", "load", "change"}
    Docs = {1, 2}
    StatusOf <- MCStatusOf
    TypeOf <- MCTypeOf
    First = {1}
    Queries = {0, 1}
    Polls = {"poll"}
    Operations = {"operation"}
    Slots = {1, 2, 3}
    StoredForms = {0, 1, 2}
    MaxEdits = 1
    MaxGenerated = 1
    NodeIds = {1, 2, 3}
    MaxOperations = 2
    AuditIds = {1, 2, 3, 4}
    Checklist <- MCChecklist
    Own = {2, 4}
    Workspaces = {1, 2}
    RuleSetsOf <- MCRuleSetsOf
    Awaited = {1, 2}
    MaxChanges = 1
    MaxFailed = 1
INVARIANTS WholeOrPart InboxShowsFilter TabsSound QuietSaves PageAgrees SelectionSound WorkspaceTrue
PROPERTIES EventsSettle ListConverges
CHECK_DEADLOCK FALSE
