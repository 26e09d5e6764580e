----------------------------- MODULE Documents -----------------------------
(***************************************************************************)
(* The documents workspace of the frontend (DocumentsTab.tsx and the IDE   *)
(* components): a list that is loaded every five seconds and after each    *)
(* operation, and tabs of open documents, one of them active.              *)
(*                                                                         *)
(* Requests to the server are steps of their own, and their answers come   *)
(* in any order.  A handler that goes on after an await still sees the     *)
(* open tabs as they were when the user clicked.  What React does between  *)
(* two events, the rendering and the effects it triggers, is part of the   *)
(* step that causes it.                                                    *)
(***************************************************************************)
EXTENDS Naturals, Sequences, SequencesExt

CONSTANTS
    Docs,           \* documents, numbered in the order in which they are created
    StatusOf,       \* per document, its status
    TypeOf,         \* per document, its type
    First,          \* the documents there are at first
    Queries,        \* values of the docId parameter: documents, or 0 for none
    Polls,          \* as many requests of the interval as are under way at once
    Operations,     \* as many generations and uploads as are under way at once
    MaxFailed       \* how many requests fail, at most

\* Every operation ends with a request of its own.
Requests == Polls \cup Operations \cup {"delete"}

VARIABLES
    life,       \* on the server: of each document, whether it is new, there or gone
    shown,      \* nodes: the documents of the list
    open,       \* openNodes
    active,     \* activeNodeId, 0: none
    docId,      \* the docId parameter
    request,    \* the requests of loadNodes, and the operations they follow
    deletion,   \* handleDeleteActiveNode: what it saw when the user clicked
    failed      \* how many requests have failed

dvars == <<life, shown, open, active, docId, request, deletion, failed>>

There == {d \in Docs : life[d] = "there"}
NoRequest  == [pc |-> "idle", answer |-> {}]
NoDeletion == [doc |-> 0, open |-> <<>>]

\* The list has the newest first.
Listed(nodes) == SetToSortSeq(nodes, LAMBDA d, e : d > e)
\* The tabs that are left without d's.
Without(tabs, d) ==
    LET Left[n \in 0..Len(tabs)] ==
            IF n = 0 THEN <<>> ELSE IF tabs[n] = d THEN Left[n - 1] ELSE Append(Left[n - 1], tabs[n])
    IN  Left[Len(tabs)]
Opened(d, tabs) == IF d \in ToSet(tabs) THEN tabs ELSE Append(tabs, d)
ActiveNode == IF active \in shown THEN active ELSE 0

DInit ==
    /\ life = [d \in Docs |-> IF d \in First THEN "there" ELSE "new"]
    /\ shown = {} /\ open = <<>> /\ active = 0
    /\ docId \in Queries
    /\ request = [r \in Requests |-> NoRequest]
    /\ deletion = NoDeletion
    /\ failed = 0

----------------------------------------------------------------------------
(* Effects *)

\* DataSync opens the document of the parameter, and as openNode is a new function whenever
\* the tabs change, it does so after every change of them.
DataSync(nodes, tabs, d) ==
    IF docId \in nodes THEN open' = Opened(docId, tabs) /\ active' = docId
                       ELSE open' = tabs /\ active' = d

\* The first document of the list is opened when the active one is not in it.
OpenFirst(nodes, tabs, d) ==
    IF nodes = {} \/ d \in nodes
      THEN open' = tabs /\ active' = d
      ELSE LET newest == Head(Listed(nodes))
           IN  open' = Opened(newest, tabs) /\ active' = newest

\* The second effect is there without the parameter only.
Effects(nodes, tabs, d) ==
    IF docId # 0 THEN DataSync(nodes, tabs, d) ELSE OpenFirst(nodes, tabs, d)

----------------------------------------------------------------------------
(* Broken variants of operators below; they are no part of the specification *)

\* Broken variant of CloseNode: the active document is not looked at.
CloseNodeOnly(d, tabs, was) ==
    Effects(shown, Without(tabs, d), active)

\* Broken variant of Poll: the list is loaded once.
PollOnce(r) ==
    /\ request[r].pc = "idle" /\ shown = {} /\ docId = 0
    /\ request' = [request EXCEPT ![r].pc = "sent"]
    /\ UNCHANGED <<life, shown, open, active, docId, deletion, failed>>

----------------------------------------------------------------------------
(* openNode and closeNode of the IDE's context *)

OpenNode(d) == Effects(shown, Opened(d, open), d)

\* tabs and was: openNodes and activeNodeId as the caller saw them.
CloseNode(d, tabs, was) ==
    LET rest == Without(tabs, d)
    IN  Effects(shown, rest,
                IF was # d THEN active ELSE IF rest = <<>> THEN 0 ELSE Last(rest))

----------------------------------------------------------------------------
(* The list *)

\* setInterval, and the first loadNodes.
Poll(r) ==
    /\ request[r].pc = "idle"
    /\ request' = [request EXCEPT ![r].pc = "sent"]
    /\ UNCHANGED <<life, shown, open, active, docId, deletion, failed>>

\* NodesService.findAll
FindAll(r) ==
    /\ request[r].pc = "sent"
    /\ request' = [request EXCEPT ![r] = [pc |-> "answered", answer |-> There]]
    /\ UNCHANGED <<life, shown, open, active, docId, deletion, failed>>

LoadNodes(r) ==
    /\ request[r].pc = "answered"
    /\ shown' = request[r].answer
    /\ Effects(request[r].answer, open, active)
    /\ request' = [request EXCEPT ![r] = NoRequest]
    /\ UNCHANGED <<life, docId, deletion, failed>>

\* The list stays as it is, whether the request was refused or broke off.
LoadFails(r) ==
    /\ failed < MaxFailed /\ request[r].pc \in {"sent", "answered"}
    /\ request' = [request EXCEPT ![r] = NoRequest]
    /\ failed' = failed + 1
    /\ UNCHANGED <<life, shown, open, active, docId, deletion>>

----------------------------------------------------------------------------
(* What the user does *)

STATUS_FILTERS == {"ALL", "DRAFT", "PENDING_REVIEW", "NEEDS_CHANGES", "APPROVED"}

\* buildFolderGroups: the keys of the folders.
FolderGroups(nodes) == {"ALL"} \cup {TypeOf[d] : d \in nodes}

\* The text that is searched for is left out.
FilterNodes(nodes, status, folder) ==
    {d \in nodes : status \in {"ALL", StatusOf[d]} /\ folder \in {"ALL", TypeOf[d]}}

\* DocumentFolderTree offers the folders there are, of which one stays chosen.
DocumentTable == UNION {FilterNodes(shown, status, folder) :
                          status \in STATUS_FILTERS, folder \in FolderGroups(shown)}

\* buildPendingApprovals: the first four.
PendingApprovals(nodes) ==
    LET waiting == SelectSeq(Listed(nodes), LAMBDA d : StatusOf[d] \in {"PENDING_REVIEW", "NEEDS_CHANGES"})
    IN  {waiting[n] : n \in 1 .. (IF Len(waiting) < 4 THEN Len(waiting) ELSE 4)}

\* The document before or after the active one in the list, 0: none.
Neighbour(step) ==
    LET list == Listed(shown)
        near == {n \in DOMAIN list : LET m == IF step = "next" THEN n - 1 ELSE n + 1
                                     IN  m \in DOMAIN list /\ list[m] = ActiveNode}
    IN  IF near = {} THEN 0 ELSE list[CHOOSE n \in near : TRUE]

\* The buttons that are not disabled; the generation's waits for the last one, too.
Buttons == {step \in {"previous", "next"} : Neighbour(step) # 0}
           \cup (IF ActiveNode # 0 THEN {"generate"} ELSE {})
           \cup (IF ActiveNode # 0 /\ deletion = NoDeletion THEN {"delete"} ELSE {})

Stay == UNCHANGED <<life, shown, docId, request, deletion, failed>>

OpenRow(d) == d \in DocumentTable /\ OpenNode(d) /\ Stay

\* PendingApprovalsCard
OpenApproval(d) == d \in PendingApprovals(shown) /\ OpenNode(d) /\ Stay

\* FileExplorer, whose groups can all be unfolded
OpenFile(d) == d \in shown /\ OpenNode(d) /\ Stay

HandleNavigate(step) == step \in Buttons /\ OpenNode(Neighbour(step)) /\ Stay

\* EditorTabs shows the tabs of documents that are in the list.
SelectTab(d) ==
    /\ d \in ToSet(open) \cap shown
    /\ Effects(shown, open, d) /\ Stay

CloseTab(d) ==
    /\ d \in ToSet(open) \cap shown
    /\ CloseNode(d, open, active) /\ Stay

\* handleDeleteActiveNode; its button is disabled while it is under way.
Delete ==
    /\ "delete" \in Buttons
    /\ deletion' = [doc |-> active, open |-> open]
    /\ request' = [request EXCEPT !["delete"].pc = "before"]
    /\ UNCHANGED <<life, shown, open, active, docId, failed>>

\* NodesService.remove; it throws when the document is gone.
RemoveNode ==
    /\ request["delete"].pc = "before"
    /\ life[deletion.doc] = "there"
    /\ life' = [life EXCEPT ![deletion.doc] = "gone"]
    /\ request' = [request EXCEPT !["delete"].pc = "removed"]
    /\ UNCHANGED <<shown, open, active, docId, deletion, failed>>

\* closeNode, as it was when the user clicked, and loadNodes.
Removed ==
    /\ request["delete"].pc = "removed"
    /\ CloseNode(deletion.doc, deletion.open, deletion.doc)
    /\ request' = [request EXCEPT !["delete"].pc = "sent"]
    /\ UNCHANGED <<life, shown, docId, deletion, failed>>

RemoveFails ==
    /\ request["delete"].pc = "before"
    /\ \/ life[deletion.doc] # "there" /\ UNCHANGED failed
       \/ failed < MaxFailed /\ failed' = failed + 1
    /\ request' = [request EXCEPT !["delete"] = NoRequest]
    /\ UNCHANGED <<life, shown, open, active, docId, deletion>>

\* deleting is reset.
Deleted ==
    /\ request["delete"].pc = "idle" /\ deletion # NoDeletion
    /\ deletion' = NoDeletion
    /\ UNCHANGED <<life, shown, open, active, docId, request, failed>>

\* Of what a generation and an upload do on the server, the list shows nothing but the
\* documents.  There is one of each at a time: their buttons are disabled meanwhile.
Send(r) ==
    /\ r \in Operations /\ request[r].pc = "idle"
    /\ request' = [request EXCEPT ![r].pc = "before"]
    /\ UNCHANGED <<life, shown, open, active, docId, deletion, failed>>

HandleGenerateActiveNode(r) == "generate" \in Buttons /\ Send(r)

\* processUploadList, from the modal
HandleModalUpload(r) == Send(r)

Operated(r) ==
    /\ r \in Operations /\ request[r].pc = "before"
    /\ \/ request' = [request EXCEPT ![r].pc = "sent"] /\ UNCHANGED failed
       \/ failed < MaxFailed /\ failed' = failed + 1 /\ request' = [request EXCEPT ![r] = NoRequest]
    /\ UNCHANGED <<life, shown, open, active, docId, deletion>>

----------------------------------------------------------------------------
(* Other users *)

Create(d) ==
    /\ life[d] = "new" /\ \A e \in Docs : e < d => life[e] # "new"
    /\ life' = [life EXCEPT ![d] = "there"]
    /\ UNCHANGED <<shown, open, active, docId, request, deletion, failed>>

RemoveElsewhere(d) ==
    /\ life[d] = "there"
    /\ life' = [life EXCEPT ![d] = "gone"]
    /\ UNCHANGED <<shown, open, active, docId, request, deletion, failed>>

----------------------------------------------------------------------------

Answering(r) == FindAll(r) \/ LoadNodes(r)

DNext ==
    \/ \E r \in Polls : Poll(r)
    \/ \E r \in Requests :
          \/ Answering(r) \/ LoadFails(r)
          \/ HandleGenerateActiveNode(r) \/ HandleModalUpload(r) \/ Operated(r)
    \/ \E d \in Docs : 
          \/ OpenRow(d) \/ OpenApproval(d) \/ OpenFile(d) \/ SelectTab(d) \/ CloseTab(d)
          \/ Create(d) \/ RemoveElsewhere(d)
    \/ \E step \in {"previous", "next"} : HandleNavigate(step)
    \/ Delete \/ RemoveNode \/ Removed \/ RemoveFails \/ Deleted

\* The interval runs and requests are answered, or fail.
DFairness ==
    /\ \A r \in Polls : WF_dvars(Poll(r))
    /\ \A r \in Requests : WF_dvars(Answering(r))

DSpec == DInit /\ [][DNext]_dvars /\ DFairness

----------------------------------------------------------------------------
(* What the code keeps *)

\* No document is in two tabs, and the active document has one, although a deletion writes
\* the tabs as they were when the user asked for it.
TabsSound ==
    /\ \A m, n \in DOMAIN open : open[m] = open[n] => m = n
    /\ active # 0 => active \in ToSet(open)

\* When the documents change no more, the list comes to show them and stays so, whatever
\* answers come late and whichever requests fail.
ListConverges == <>[](shown = There)

=============================================================================
