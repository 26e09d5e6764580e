---------------------------- MODULE NodeWorkflow ----------------------------
(***************************************************************************)
(* The life of one document node: created by the projects service or by    *)
(* POST /nodes, read and saved by clients (nodes.service.ts, and the       *)
(* document view of the frontend), and filled in by the document builder   *)
(* (document-builder.service.ts), which reads the node, then the           *)
(* requirements model, then asks the retrieval service, and only then      *)
(* opens the transaction that writes revision, snapshot and node.          *)
(*                                                                         *)
(* Every awaited query is a step.  The transaction is two: it reads the    *)
(* last revision's number, and it commits, or is rolled back when that     *)
(* number has been taken (READ COMMITTED and a unique constraint).  A      *)
(* node's data are the values of its template's fields, section by section *)
(* and kept apart by section and id, and the remediation form; snapshot,   *)
(* segments and provenance follow from the revision.                       *)
(***************************************************************************)
EXTENDS Naturals, FiniteSets

CONSTANTS
    Template,       \* the ids of its template's fields, in the order of its sections
    Values,         \* what a field may hold
    Zero,           \* the one of them that JavaScript counts as false
    Found,          \* what facts, defaults and retrieval come up with, some of the values
    Forms,          \* contents of the remediation form
    NoValue,        \* a field that is there and null or empty
    NoField,        \* a field the data do not have
    NoForm, NoData,
    Written,        \* what clients write, overlapping ([FALSE]) and taking turns ([TRUE])
    Generations,    \* the calls of generateNode
    Views,          \* clients that show the node and save it
    Statuses,       \* the statuses clients set
    MaxModels,      \* how many requirements models rule runs write, at most
    TurnModes       \* which of taking turns (TRUE) and overlapping (FALSE) is looked at

NodeStatus == {"DRAFT", "PENDING_REVIEW", "APPROVED", "ARCHIVED"}

\* A field is its place in the template: two sections may each have one with the same id.
Fields == DOMAIN Template

Content == [fields : [Fields -> Values \cup {NoValue, NoField}], form : Forms \cup {NoForm}]
Blank   == [fields |-> [f \in Fields |-> NoField], form |-> NoForm]

ASSUME NodeWorkflowAssumption ==
    /\ Fields \subseteq Nat
    /\ Zero \in Values /\ NoValue \notin Values /\ NoField \notin Values \cup {NoValue}
    /\ Found \subseteq Values
    /\ NoForm \notin Forms
    /\ Statuses \subseteq NodeStatus
    /\ MaxModels \in Nat
    /\ TurnModes \subseteq BOOLEAN
    /\ Written \in [BOOLEAN -> SUBSET Content]

VARIABLES
    node,       \* the row of nodes
    revisions,  \* its rows in node_revisions
    model,      \* the latest requirements model of the project, 0: none
    gen,        \* the calls of generateNode: where they are and what they hold
    view,       \* what each client has loaded
    turns       \* TRUE: a client, or a generation, has the node to itself

vars == <<node, revisions, model, gen, view, turns>>

\* ABSENT: not created yet; GONE: deleted.
NodeRecord == [status : NodeStatus \cup {"ABSENT", "GONE"}, data : Content, current : Nat]

\* by is the generation that wrote the revision, none for the initial one, whose previous
\* data stay null; replaced is history: what the node held when it was written.  The new
\* data, which nothing reads back, are left out.
RevisionRecord == [number : Nat, by : SUBSET Generations, basis : Nat,
                   previous : Content \cup {NoData}, replaced : Content]

GenPc    == {"unused", "requirements", "retrieve", "last", "commit", "done", "failed"}
GenOpen  == {"requirements", "retrieve", "last", "commit"}
GenRecord == [pc : GenPc, seen : Content, basis : Nat, result : Content, number : Nat]

UnusedGen == [pc |-> "unused", seen |-> Blank, basis |-> 0, result |-> Blank, number |-> 0]

\* The call ends, and what it held is gone.
Return(g, pc) == gen' = [gen EXCEPT ![g] = [UnusedGen EXCEPT !.pc = pc]]

Exists == node.status \in NodeStatus
Generating(g) == gen[g].pc \in GenOpen

\* Nobody else is at the node.
Turn == turns => /\ \A g \in Generations : ~Generating(g)
                 /\ \A v \in Views : view[v] = NoData

Init ==
    /\ node = [status |-> "ABSENT", data |-> Blank, current |-> 0]
    /\ revisions = {}
    /\ model = 0
    /\ gen = [g \in Generations |-> UnusedGen]
    /\ view = [v \in Views |-> NoData]
    /\ turns \in TurnModes

----------------------------------------------------------------------------
(* What the document builder makes of a field *)

\* The fields extractFieldFromSections could take for f: it goes by the id alone.
Namesakes(data, f) ==
    {g \in Fields : Template[g] = Template[f] /\ data.fields[g] # NoField}

\* Broken variant of Existing: the last of the namesakes is taken.
ExistingLast(data, f) ==
    IF Namesakes(data, f) = {} THEN NoValue
    ELSE data.fields[CHOOSE g \in Namesakes(data, f) : \A h \in Namesakes(data, f) : h <= g]

\* It takes the first of them, whatever section f is in.
Existing(data, f) ==
    IF Namesakes(data, f) = {} THEN NoValue
    ELSE data.fields[CHOOSE g \in Namesakes(data, f) : \A h \in Namesakes(data, f) : g <= h]

\* What stands in an earlier section under its own id comes before f's own value.
Shadowed(data, f) == \E g \in Namesakes(data, f) : g < f

\* pickFieldValue takes what is there, else a fact or a requirement's default, which may
\* be missing.  A value that counts as false is asked of the retrieval service all the same,
\* and what that finds, blank text perhaps, takes its place.
Filled(value) == IF value \in {NoValue, Zero} THEN Found \cup {value, NoValue} ELSE {value}

\* The builder's payload has every field of the template, each under its section, and
\* nothing else: no form.
Payloads(seen) ==
    {[fields |-> values, form |-> NoForm] :
        values \in {v \in [Fields -> Values \cup {NoValue}] :
                        \A f \in Fields : v[f] \in Filled(Existing(seen, f))}}

\* What a client can make of the data it shows: one field, or the form, set anew.
Changes(data) ==
    {[data EXCEPT !.fields[f] = x] : f \in Fields, x \in Values \cup {NoValue}}
        \cup {[data EXCEPT !.form = x] : x \in Forms}

----------------------------------------------------------------------------
(* Broken variants of actions below, each the slip a change to the code could make;  *)
(* none is part of the specification.  The properties at the end tell them apart.    *)

\* The requirements model is looked for without an order.
ReadRequirementsUnordered(g) ==
    /\ gen[g].pc = "requirements"
    /\ \E n \in IF model = 0 THEN {0} ELSE 1 .. model :
        gen' = [gen EXCEPT ![g].pc = "retrieve", ![g].basis = n]
    /\ UNCHANGED <<node, revisions, model, view, turns>>

Revision(g) ==
    [number |-> gen[g].number, by |-> {g}, basis |-> gen[g].basis,
     previous |-> gen[g].seen, replaced |-> node.data]

\* The unique constraint is missing.
CommitUnconstrained(g) ==
    /\ gen[g].pc = "commit"
    /\ Exists
    /\ revisions' = revisions \cup {Revision(g)}
    /\ node' = [status |-> "PENDING_REVIEW", data |-> gen[g].result, current |-> gen[g].number]
    /\ Return(g, "done")
    /\ UNCHANGED <<model, view, turns>>

\* previousData is filled with the builder's payload.
CommitPayloadTwice(g) ==
    /\ gen[g].pc = "commit"
    /\ Exists /\ \A r \in revisions : r.number # gen[g].number
    /\ revisions' = revisions \cup {[Revision(g) EXCEPT !.previous = gen[g].result]}
    /\ node' = [status |-> "PENDING_REVIEW", data |-> gen[g].result, current |-> gen[g].number]
    /\ Return(g, "done")
    /\ UNCHANGED <<model, view, turns>>

----------------------------------------------------------------------------
(* Creation and deletion *)

\* ProjectsService.createNode: node, first revision and the pointer to it, in one transaction.
CreateNode(status, data) ==
    /\ node.status = "ABSENT"
    /\ node' = [status |-> status, data |-> data, current |-> 1]
    /\ revisions' = {[number |-> 1, by |-> {}, basis |-> 0,
                      previous |-> NoData, replaced |-> Blank]}
    /\ UNCHANGED <<model, gen, view, turns>>

\* NodesService.create: the row alone.
CreateBareNode(status, data) ==
    /\ node.status = "ABSENT"
    /\ node' = [status |-> status, data |-> data, current |-> 0]
    /\ UNCHANGED <<revisions, model, gen, view, turns>>

\* NodesService.remove: refused by the foreign key of node_revisions once there is one.
Remove ==
    /\ Exists /\ revisions = {}
    /\ Turn
    /\ node' = [node EXCEPT !.status = "GONE"]
    /\ UNCHANGED <<revisions, model, gen, view, turns>>

----------------------------------------------------------------------------
(* Clients *)

Load(v) ==
    /\ Exists /\ Turn
    /\ view' = [view EXCEPT ![v] = node.data]
    /\ UNCHANGED <<node, revisions, model, gen, turns>>

\* PATCH with all of the data as loaded, but for the change.  The status stays, no revision
\* is written, and the client goes on showing what it had loaded.
Save(v, data) ==
    /\ Exists /\ view[v] # NoData
    /\ data \in Changes(view[v])
    /\ node' = [node EXCEPT !.data = data]
    /\ UNCHANGED <<revisions, model, gen, view, turns>>

Close(v) ==
    /\ view[v] # NoData
    /\ view' = [view EXCEPT ![v] = NoData]
    /\ UNCHANGED <<node, revisions, model, gen, turns>>

\* PATCH with a status alone.
SetStatus(status) ==
    /\ Exists
    /\ node' = [node EXCEPT !.status = status]
    /\ UNCHANGED <<revisions, model, gen, view, turns>>

\* A rule run of the project completes.
NewModel ==
    /\ model < MaxModels
    /\ model' = model + 1
    /\ UNCHANGED <<node, revisions, gen, view, turns>>

----------------------------------------------------------------------------
(* generateNode *)

\* The node, and its template, which never changes.
ReadNode(g) ==
    /\ gen[g].pc = "unused"
    /\ Exists /\ Turn
    /\ gen' = [gen EXCEPT ![g] = [UnusedGen EXCEPT !.pc = "requirements", !.seen = node.data]]
    /\ UNCHANGED <<node, revisions, model, view, turns>>

ReadRequirements(g) ==
    /\ gen[g].pc = "requirements"
    /\ gen' = [gen EXCEPT ![g].pc = "retrieve", ![g].basis = model]
    /\ UNCHANGED <<node, revisions, model, view, turns>>

\* The retrieval service answers, or throws, which leaves the fields it was asked for empty.
Retrieve(g) ==
    /\ gen[g].pc = "retrieve"
    /\ \E payload \in Payloads(gen[g].seen) :
        gen' = [gen EXCEPT ![g].pc = "last", ![g].result = payload]
    /\ UNCHANGED <<node, revisions, model, view, turns>>

\* The transaction's query for the highest revision number, 0 if there is none.
ReadLast(g) ==
    /\ gen[g].pc = "last"
    /\ \E n \in {0} \cup {r.number : r \in revisions} :
        /\ \A r \in revisions : r.number <= n
        /\ gen' = [gen EXCEPT ![g].pc = "commit", ![g].number = n + 1]
    /\ UNCHANGED <<node, revisions, model, view, turns>>

\* The rest of it: revision, snapshot, segments and node.
Commit(g) ==
    /\ gen[g].pc = "commit"
    /\ Exists /\ \A r \in revisions : r.number # gen[g].number
    /\ revisions' = revisions \cup {Revision(g)}
    /\ node' = [status |-> "PENDING_REVIEW", data |-> gen[g].result, current |-> gen[g].number]
    /\ Return(g, "done")
    /\ UNCHANGED <<model, view, turns>>

\* A query throws, the number has been taken or the node deleted: nothing is left of it.
GenerateFails(g) ==
    /\ Generating(g)
    /\ Return(g, "failed")
    /\ UNCHANGED <<node, revisions, model, view, turns>>

----------------------------------------------------------------------------

Generate(g) ==
    \/ ReadNode(g) \/ ReadRequirements(g) \/ Retrieve(g)
    \/ ReadLast(g) \/ Commit(g) \/ GenerateFails(g)

Client(v) == Load(v) \/ (\E data \in Written[turns] : Save(v, data)) \/ Close(v)

Next ==
    \/ \E status \in Statuses \cup {"DRAFT"}, data \in Written[turns] :
        CreateNode(status, data) \/ CreateBareNode(status, data)
    \/ Remove
    \/ \E v \in Views : Client(v)
    \/ \E status \in Statuses : SetStatus(status)
    \/ NewModel
    \/ \E g \in Generations : Generate(g)

Spec == Init /\ [][Next]_vars

----------------------------------------------------------------------------
(* What the code keeps *)

TypeOK ==
    /\ node \in NodeRecord
    /\ revisions \subseteq RevisionRecord
    /\ model \in Nat
    /\ gen \in [Generations -> GenRecord]
    /\ view \in [Views -> Content \cup {NoData}]
    /\ turns \in BOOLEAN

\* However generations overlap, the revisions are numbered from 1 without gap or repeat, and
\* the node points at the last one: the generation that loses the race for a number leaves
\* nothing.
HistoryNumbered ==
    /\ \A r \in revisions : r.number \in 1 .. node.current
    /\ \A n \in 1 .. node.current : \E r \in revisions : r.number = n
    /\ \A r, s \in revisions : r.number = s.number => r = s

\* A generation that answered has its revision, and one that failed, or that is under way,
\* has left none, wherever it stopped.
DoneHasRevision ==
    \A g \in Generations : gen[g].pc = "done" <=> \E r \in revisions : r.by = {g}

\* agent_handbook/document-builder.md:17, "backup current state for revision log": the
\* previous data of a revision are what the node held when the revision replaced it.
ReplacedIsBackedUp == \A r \in revisions : r.by # {} => r.previous = r.replaced

\* Where a client or a generation has the node to itself, the backup is right.
TurnsBackUp == turns => ReplacedIsBackedUp

\* Where they take turns, a field that has a value is never emptied or changed by a
\* generation, through any sequence of edits and generations, unless an earlier section has
\* a field with its id: the node holds what the client last saved.  (A value that counts as
\* false is changed, see Filled; a shadowed one gives way to the first with its id.)
Truthy == Values \ {Zero}

TurnsKeepFilled ==
    [][turns /\ revisions' # revisions =>
        \A f \in Fields : /\ node.data.fields[f] \in Truthy /\ Exists
                           /\ ~Shadowed(node.data, f)
                              => node'.data.fields[f] = node.data.fields[f]]_vars

\* Where they take turns, no revision is built from an older requirements model than the
\* one before it.
TurnsBasis ==
    turns => \A r, s \in revisions : r.number < s.number => r.basis <= s.basis

=============================================================================
