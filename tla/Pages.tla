------------------------------- MODULE Pages -------------------------------
(***************************************************************************)
(* The pages of the client that keep more than they are given: the task    *)
(* inbox, the documents, one document, one project, the audits and the     *)
(* compliance workspace.  One page is open; what another page would keep   *)
(* stays as it would begin.  Or none is, and maintenance events are worked *)
(* on while other clients change their tasks.                              *)
(***************************************************************************)
EXTENDS TaskInbox

CONSTANTS
    InboxEvents, InboxAnswers,      \* the events, and what the model answers, beside the inbox
    Docs, StatusOf, TypeOf, First, Queries, Polls, Operations,
    Slots, StoredForms, MaxEdits, MaxGenerated,
    NodeIds, MaxOperations,
    AuditIds, Checklist, Own,
    Workspaces, RuleSetsOf, Awaited, MaxChanges,
    MaxFailed

VARIABLES
    page,                                                           \* the page that is open
    life, listed, open, active, docId, requests, deletion, missed,  \* the documents
    data, node, form, opening, savedAt, writes, edits, generated, lost, calm,   \* one document
    nodes, made, tasks, runs, project, reloading, components, projectNodes, initialized,
    requirements, conflicts, calls, operations, broken, undisturbed,                         \* one project
    stored, audits, selection, fetching, load, creation,            \* the audits
    offered, evaluated, unresolved, edition, known, workspace, conflict, busy, sent,
    assistant, settled                                              \* the compliance workspace

D == INSTANCE Documents WITH shown <- listed, request <- requests, failed <- missed
V == INSTANCE DocumentView WITH loading <- opening, request <- writes, failed <- lost, quiet <- calm
P == INSTANCE ProjectPage WITH
        created <- made, loading <- reloading, request <- calls, failed <- broken, quiet <- undisturbed
A == INSTANCE Audits WITH loading <- fetching
C == INSTANCE Compliance

ASSUME PagesAssumption ==
    /\ InboxEvents \subseteq Events /\ InboxAnswers \subseteq Answers
    /\ V!ViewAssumption /\ P!PageAssumption /\ A!AuditsAssumption /\ C!ComplianceAssumption

docs    == <<life, listed, open, active, docId, requests, deletion, missed>>
doc     == <<data, node, form, opening, savedAt, writes, edits, generated, lost, calm>>
proj    == <<nodes, made, tasks, runs, project, reloading, components, projectNodes, initialized,
             requirements, conflicts, calls, operations, broken, undisturbed>>
auds    == <<stored, audits, selection, fetching, load, creation>>
comp    == <<offered, evaluated, unresolved, edition, known, workspace, conflict, busy, sent,
             assistant, settled>>
pages   == <<page, vars, docs, doc, proj, auds, comp>>

\* The pages differ in what there is on the server when they are opened.
PagesInit ==
    /\ page \in {"none", "inbox", "documents", "document", "project", "audits", "compliance"}
    /\ Init /\ D!DInit /\ V!VInit /\ P!PInit /\ A!AInit /\ C!CInit
    /\ page \notin {"none", "inbox"} => validates
    /\ page # "documents" => docId = 0
    /\ page # "document" => data.form = V!NoForm
    /\ page # "project" => nodes = P!None
    /\ page # "audits" => stored = {}
    /\ page # "compliance" => offered = <<>>

\* The bound on the events beside the inbox, of which it sees but the tasks: few, with few
\* answers, and none dies.
FewEvents ==
    \A e \in Events :
        \/ work[e].pc = "unused"
        \/ /\ e \in InboxEvents /\ work[e].answer \in InboxAnswers \cup {Nothing}
           /\ work[e].pc # "lost"

OnInbox      == page = "inbox" /\ UNCHANGED <<page, docs, doc, proj, auds, comp>>
OnNone       == page = "none" /\ UNCHANGED <<page, docs, doc, proj, auds, comp>>
OnDocuments  == page = "documents" /\ UNCHANGED <<page, vars, doc, proj, auds, comp>>
OnDocument   == page = "document" /\ UNCHANGED <<page, vars, docs, proj, auds, comp>>
OnProject    == page = "project" /\ UNCHANGED <<page, vars, docs, doc, auds, comp>>
OnAudits     == page = "audits" /\ UNCHANGED <<page, vars, docs, doc, proj, comp>>
OnCompliance == page = "compliance" /\ UNCHANGED <<page, vars, docs, doc, proj, auds>>

PagesNext ==
    \/ OnInbox /\ Next /\ FewEvents'
    \/ OnNone /\ Others
    \/ OnDocuments /\ D!DNext
    \/ OnDocument /\ V!VNext
    \/ OnProject /\ P!PNext
    \/ OnAudits /\ A!ANext
    \/ OnCompliance /\ C!CNext

PagesFairness ==
    /\ \A e \in Events : WF_pages((OnNone /\ Served(e)) \/ (OnInbox /\ Served(e) /\ FewEvents'))
    /\ \A r \in Polls : WF_pages(OnDocuments /\ D!Poll(r))
    /\ \A r \in D!Requests : WF_pages(OnDocuments /\ D!Answering(r))

PagesSpec == PagesInit /\ [][PagesNext]_pages /\ PagesFairness

----------------------------------------------------------------------------
(* What each page keeps, as its module says it *)

TabsSound      == D!TabsSound
\* A page that is not open loads nothing.
ListConverges  == page = "documents" => D!ListConverges
QuietSaves     == V!QuietSaves
PageAgrees     == P!PageAgrees
SelectionSound == A!SelectionSound
WorkspaceTrue  == C!WorkspaceTrue

AutosaveKeepsForm == V!AutosaveKeepsForm
=============================================================================
