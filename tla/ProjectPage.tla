---------------------------- MODULE ProjectPage ----------------------------
(***************************************************************************)
(* The page of one project (projects/[id]/page.tsx): the register of its   *)
(* components and its tasks.  The nodes of the project come in two         *)
(* answers, the project's and that of a list of their own, and an effect   *)
(* writes the register again whenever the project or the loading flag      *)
(* changes.  Changes of a component's status are shown before the server   *)
(* has answered, and taken back when it refuses.                           *)
(*                                                                         *)
(* The report of the rule engine is loaded by itself.                      *)
(*                                                                         *)
(* Answers come in any order; the effects of a render are part of the step *)
(* that causes it.  The specifications, which are never saved, are left    *)
(* out.                                                                    *)
(***************************************************************************)
EXTENDS Naturals, FiniteSets, FiniteSetsExt, TLC

CONSTANTS
    Slots,          \* as many requests are under way at once (numbers)
    NodeIds,        \* nodes, numbered in the order in which they are created
    MaxOperations,  \* how often the user or others change something, at most
    MaxFailed       \* how many requests fail, at most

\* The page asks for three things when it is opened.
PageAssumption == Cardinality(Slots) \in Nat /\ Cardinality(Slots) >= 3 /\ Slots = 1 .. Cardinality(Slots)

VARIABLES
    nodes,          \* on the server: the status of each node there is
    created,        \* on the server: how many nodes were created
    tasks,          \* on the server: the version of the tasks, files and what else belongs to
                    \* the project
    runs,           \* on the server: how often the rule engine has run
    project,        \* project: its nodes and tasks as loaded, or NoProject
    loading,
    components,     \* the register: the status of each row
    projectNodes,
    initialized,    \* componentsInitialized
    requirements,   \* of which run the page shows the requirements
    conflicts,      \* and of which the conflicts
    request,        \* the requests under way
    operations, failed,
    quiet           \* history: what was loaded, by itself or by an operation that had the page to
                    \* itself, such that since then no two operations overlapped, no request
                    \* failed and nobody else wrote

Page   == <<project, loading, components, projectNodes, initialized, requirements, conflicts>>
Server == <<nodes, created, tasks, runs>>
pageVars == <<Server, Page, request, operations, failed, quiet>>

\* DEFAULT_COMPONENTS: one row stands for the four; the server has no such node.
Default == 0
DEFAULT_COMPONENTS == Default :> "READY"

None == <<>>
NoProject == [nodes |-> None, tasks |-> 0, found |-> FALSE]

NodeStatus      == {"DRAFT", "APPROVED"}    \* PENDING_REVIEW and ARCHIVED are like APPROVED
ComponentStatus == {"DRAFT", "READY"}       \* IN_PROGRESS is like READY

Idle == [kind |-> "none", pc |-> "idle", for |-> "none", nodes |-> None, tasks |-> 0,
         id |-> 0, status |-> "none", previous |-> "none", done |-> {}]
Sent(kind, for) == [Idle EXCEPT !.kind = kind, !.pc = "sent", !.for = for]
Free == {s \in Slots : request[s] = Idle}
Quiet == Free = Slots
Report == {"requirements", "conflicts"}

\* What the page shows but "Laster prosjekt..." and "Prosjektet finnes ikke.".
Visible == ~loading /\ project.found

\* What an operation is under way for, until its loads have ended: the button that began it is
\* disabled.
Busy(button) == \E s \in Slots : request[s].for = button

\* The register's rows, each with a select for its status that is never disabled.
ComponentTable == IF Visible THEN DOMAIN components ELSE {}
ComponentForm  == Visible /\ ~Busy("add")
TaskForm       == Visible /\ ~Busy("create")
UploadInput    == Visible /\ ~Busy("upload")
RunButton      == Visible /\ ~Busy("run")
\* renderTaskRow: the select of a task's status is never disabled.
TaskRows       == Visible

PInit ==
    /\ nodes \in {None} \cup [{1} -> NodeStatus]
    /\ created = Cardinality(DOMAIN nodes) /\ tasks = 0 /\ runs = 0
    /\ requirements = 0 /\ conflicts = 0
    /\ project = NoProject /\ loading = TRUE
    /\ components = DEFAULT_COMPONENTS /\ projectNodes = None /\ initialized = FALSE
    /\ request = [s \in Slots |-> CASE s = Min(Slots) -> Sent("project", "page")
                                    [] s = Max(Slots) -> Sent("nodes", "page")
                                    [] s = Min(Slots) + 1 -> Sent("rules", "page")
                                    [] OTHER -> Idle]
    /\ operations = 0 /\ failed = 0 /\ quiet = {"project", "report"}

----------------------------------------------------------------------------
(* Broken variants of operators below; they are no part of the specification *)

\* Broken variant of ShowNodes: the register is filled once.
ShowNodesOnce(p, busy) ==
    IF p.nodes # None /\ ~initialized
      THEN components' = p.nodes /\ projectNodes' = p.nodes /\ initialized' = TRUE
      ELSE /\ initialized' = (initialized \/ ~busy)
           /\ components' = (IF ~busy /\ ~initialized THEN DEFAULT_COMPONENTS ELSE components)
           /\ UNCHANGED projectNodes

----------------------------------------------------------------------------
(* Loading *)

\* The effect on the project's nodes and the loading flag.
ShowNodes(p, busy) ==
    IF p.nodes # None
      THEN components' = p.nodes /\ projectNodes' = p.nodes /\ initialized' = TRUE
      ELSE /\ initialized' = (initialized \/ ~busy)
           /\ components' = (IF ~busy /\ ~initialized THEN DEFAULT_COMPONENTS ELSE components)
           /\ UNCHANGED projectNodes

\* loadProject, up to its request: the flag alone makes the effect show the nodes of the
\* project as it was loaded before.
LoadProject ==
    /\ loading' = TRUE
    /\ IF loading THEN UNCHANGED <<components, projectNodes, initialized>> ELSE ShowNodes(project, TRUE)
    /\ UNCHANGED project

\* ProjectsService.getProject and listNodes
ReadServer(s) ==
    /\ request[s].pc = "sent" /\ request[s].kind \in {"project", "nodes"}
    /\ request' = [request EXCEPT ![s].pc = "answered", ![s].nodes = nodes, ![s].tasks = tasks]
    /\ UNCHANGED <<Server, Page, operations, failed, quiet>>

ProjectLoaded(s) ==
    /\ request[s].pc = "answered" /\ request[s].kind = "project"
    /\ project' = [nodes |-> request[s].nodes, tasks |-> request[s].tasks, found |-> TRUE]
    /\ loading' = FALSE
    /\ ShowNodes(project', FALSE)
    /\ request' = [request EXCEPT ![s] = Idle]
    /\ UNCHANGED <<Server, requirements, conflicts, operations, failed, quiet>>

NodesLoaded(s) ==
    /\ request[s].pc = "answered" /\ request[s].kind = "nodes"
    /\ projectNodes' = request[s].nodes
    /\ IF request[s].nodes # None
         THEN components' = request[s].nodes /\ initialized' = TRUE
         ELSE /\ components' = (IF initialized THEN components ELSE DEFAULT_COMPONENTS)
              /\ UNCHANGED initialized
    /\ request' = [request EXCEPT ![s] = Idle]
    /\ UNCHANGED <<Server, project, loading, requirements, conflicts, operations, failed, quiet>>

\* A load that fails, before or after the server has read.
LoadFails(s) ==
    /\ failed < MaxFailed
    /\ request[s].pc \in {"sent", "answered"} /\ request[s].kind \in {"project", "nodes"}
    /\ IF request[s].kind = "project"
         THEN /\ loading' = FALSE
              /\ IF loading THEN ShowNodes(project, FALSE)
                            ELSE UNCHANGED <<components, projectNodes, initialized>>
         ELSE /\ components' = (IF initialized THEN components ELSE DEFAULT_COMPONENTS)
              /\ UNCHANGED <<loading, projectNodes, initialized>>
    /\ request' = [request EXCEPT ![s] = Idle]
    /\ failed' = failed + 1 /\ quiet' = {}
    /\ UNCHANGED <<Server, project, requirements, conflicts, operations>>

\* loadRuleData asks for the requirements and the conflicts side by side.
ReadReport(s, part) ==
    /\ request[s].pc = "sent" /\ request[s].kind = "rules" /\ part \notin request[s].done
    /\ request' = [request EXCEPT ![s].done = @ \cup {part},
                     ![s].nodes = [p \in request[s].done \cup {part} |-> IF p = part THEN runs ELSE @[p]]]
    /\ UNCHANGED <<Server, Page, operations, failed, quiet>>

RuleDataLoaded(s) ==
    /\ request[s].kind = "rules" /\ request[s].done = Report
    /\ requirements' = request[s].nodes["requirements"]
    /\ conflicts' = request[s].nodes["conflicts"]
    /\ request' = [request EXCEPT ![s] = Idle]
    /\ UNCHANGED <<Server, project, loading, components, projectNodes, initialized, operations, failed,
                   quiet>>

\* One of the two fails: neither is shown.
RuleDataFails(s) ==
    /\ failed < MaxFailed /\ request[s].kind = "rules"
    /\ request' = [request EXCEPT ![s] = Idle]
    /\ failed' = failed + 1 /\ quiet' = {}
    /\ UNCHANGED <<Server, Page, operations>>

----------------------------------------------------------------------------
(* What the user does *)

Ask(r) ==
    /\ Free # {} /\ operations < MaxOperations
    /\ request' = [request EXCEPT ![Min(Free)] = r]
    /\ operations' = operations + 1
    /\ UNCHANGED <<Server, project, loading, projectNodes, initialized, requirements, conflicts, failed>>

\* An operation that changes nothing on the page before the server has answered.
AskOnly(r) ==
    /\ Ask(r)
    /\ quiet' = IF Quiet THEN quiet \cup {IF r.kind = "run" THEN "report" ELSE "project"} ELSE {}
    /\ UNCHANGED components

\* handleComponentStatusChange: the row is changed at once.
ChangeComponent(id, status) ==
    /\ id \in ComponentTable
    /\ Ask([Sent("component", "none") EXCEPT
              !.id = id, !.status = status, !.previous = components[id]])
    /\ components' = [components EXCEPT ![id] = status]
    /\ quiet' = IF Quiet THEN quiet ELSE {}

\* NodesService.update refuses a status that is not the server's own, and a node it does
\* not have.
PatchNode(s) ==
    /\ request[s].pc = "sent" /\ request[s].kind = "component"
    /\ LET r == request[s]
           accepted == r.status \in NodeStatus /\ r.id \in DOMAIN nodes
       IN  /\ nodes' = IF accepted THEN [nodes EXCEPT ![r.id] = r.status] ELSE nodes
           /\ request' = [request EXCEPT ![s].pc = IF accepted THEN "answered" ELSE "refused"]
    /\ UNCHANGED <<created, tasks, runs, Page, operations, failed, quiet>>

WithStatus(rows, id, status) ==
    IF id \in DOMAIN rows THEN [rows EXCEPT ![id] = status] ELSE rows

ComponentChanged(s) ==
    /\ request[s].pc = "answered" /\ request[s].kind = "component"
    /\ projectNodes' = WithStatus(projectNodes, request[s].id, request[s].status)
    /\ request' = [request EXCEPT ![s] = Idle]
    /\ UNCHANGED <<Server, project, loading, components, initialized, requirements, conflicts,
                   operations, failed, quiet>>

\* The row is taken back to what it was when the user changed it.
ComponentRefused(s) ==
    /\ request[s].kind = "component"
    /\ \/ request[s].pc = "refused" /\ UNCHANGED <<failed, quiet>>
       \/ /\ request[s].pc \in {"sent", "answered"} /\ failed < MaxFailed
          /\ failed' = failed + 1 /\ quiet' = {}
    /\ components' = WithStatus(components, request[s].id, request[s].previous)
    /\ request' = [request EXCEPT ![s] = Idle]
    /\ UNCHANGED <<Server, project, loading, projectNodes, initialized, requirements, conflicts,
                   operations>>

HandleAddComponent   == ComponentForm /\ AskOnly(Sent("add", "add"))
HandleStatusChange   == TaskRows /\ AskOnly(Sent("task", "none"))
HandleCreateTask     == TaskForm /\ AskOnly(Sent("task", "create"))
HandleDocumentUpload == UploadInput /\ AskOnly(Sent("task", "upload"))
HandleRunRuleEngine  == RunButton /\ AskOnly(Sent("run", "run"))

CreateNode ==
    /\ created + 1 \in NodeIds
    /\ created' = created + 1
    /\ nodes' = [n \in DOMAIN nodes \cup {created'} |-> IF n = created' THEN "DRAFT" ELSE nodes[n]]

\* ProjectsService.createNode, TasksService, the ingestion and RuleEngineService.runRuleEngine
Change(s) ==
    /\ request[s].pc = "sent"
    /\ \/ request[s].kind = "add" /\ CreateNode /\ UNCHANGED <<tasks, runs>>
       \/ request[s].kind = "task" /\ tasks' = tasks + 1 /\ UNCHANGED <<nodes, created, runs>>
       \/ request[s].kind = "run" /\ runs' = runs + 1 /\ UNCHANGED <<nodes, created, tasks>>
    /\ request' = [request EXCEPT ![s].pc = "answered"]
    /\ UNCHANGED <<Page, operations, failed, quiet>>

\* The project is loaded anew: after a component its nodes are asked for at once, too.
Changed(s) ==
    /\ request[s].pc = "answered" /\ request[s].kind \in {"add", "task"}
    /\ request[s].kind = "add" => Free # {}
    /\ LoadProject
    /\ request' = IF request[s].kind = "task"
                    THEN [request EXCEPT ![s] = Sent("project", request[s].for)]
                    ELSE [request EXCEPT ![s] = Sent("project", "add"), ![Min(Free)] = Sent("nodes", "add")]
    /\ UNCHANGED <<Server, requirements, conflicts, operations, failed, quiet>>

\* The report is loaded anew.
RuleEngineRan(s) ==
    /\ request[s].pc = "answered" /\ request[s].kind = "run"
    /\ request' = [request EXCEPT ![s] = Sent("rules", "run")]
    /\ UNCHANGED <<Server, Page, operations, failed, quiet>>

\* The page says that the component is kept locally: so it is while nothing was loaded.
ChangeFails(s) ==
    /\ failed < MaxFailed
    /\ request[s].pc \in {"sent", "answered"} /\ request[s].kind \in {"add", "task", "run"}
    /\ components' = IF request[s].kind = "add" /\ ~initialized THEN components @@ (Default :> "DRAFT")
                     ELSE components
    /\ request' = [request EXCEPT ![s] = Idle]
    /\ failed' = failed + 1 /\ quiet' = {}
    /\ UNCHANGED <<Server, project, loading, projectNodes, initialized, requirements, conflicts,
                   operations>>

----------------------------------------------------------------------------
(* Others: a node is created, removed or changed, or the rule engine run *)

Elsewhere ==
    /\ operations < MaxOperations /\ operations' = operations + 1
    /\ \/ CreateNode /\ UNCHANGED runs
       \/ runs' = runs + 1 /\ UNCHANGED <<nodes, created>>
       \/ \E id \in DOMAIN nodes :
             /\ \/ nodes' = [n \in DOMAIN nodes \ {id} |-> nodes[n]]
                \/ \E status \in NodeStatus : nodes' = [nodes EXCEPT ![id] = status]
             /\ UNCHANGED <<created, runs>>
    /\ quiet' = {}
    /\ UNCHANGED <<tasks, Page, request, failed>>

----------------------------------------------------------------------------

PNext ==
    \/ \E s \in Slots :
         \/ ReadServer(s) \/ ProjectLoaded(s) \/ NodesLoaded(s) \/ LoadFails(s)
         \/ PatchNode(s) \/ ComponentChanged(s) \/ ComponentRefused(s)
         \/ Change(s) \/ Changed(s) \/ ChangeFails(s)
         \/ (\E part \in Report : ReadReport(s, part)) \/ RuleDataLoaded(s) \/ RuleDataFails(s)
         \/ RuleEngineRan(s)
    \/ \E id \in NodeIds \cup {Default}, status \in ComponentStatus : ChangeComponent(id, status)
    \/ HandleAddComponent \/ HandleStatusChange \/ HandleCreateTask \/ HandleDocumentUpload
    \/ HandleRunRuleEngine \/ Elsewhere

PSpec == PInit /\ [][PNext]_pageVars

----------------------------------------------------------------------------
(* What the code keeps *)

\* Once all requests are answered the page agrees with the server, if since it was loaded, or
\* since an operation that had the page to itself has loaded it anew, its operations did not
\* overlap, no request failed and nobody else wrote: the register and the nodes, when there are
\* any, through all that the loads, the effect, the early change of a row and its taking back
\* write to them; the tasks; and both halves of the rules' report.
PageAgrees ==
    Quiet =>
        /\ "project" \in quiet =>
              /\ project.tasks = tasks
              /\ nodes # None => components = nodes /\ projectNodes = nodes
        /\ "report" \in quiet => requirements = runs /\ conflicts = runs
=============================================================================
