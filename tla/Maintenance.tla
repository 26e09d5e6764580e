---------------------------- MODULE Maintenance ----------------------------
(***************************************************************************)
(* Maintenance events and the tasks that follow from them                  *)
(* (maintenance.service.ts, tasks.service.ts).  createEvent answers once   *)
(* the event is stored and leaves processEvent running detached: it asks a *)
(* language model, stores the report and the tasks the model suggests, one *)
(* statement after the other, and marks the event COMPLETED, or            *)
(* NEEDS_REVIEW when something throws.  Tasks are also created, changed    *)
(* and removed over the tasks' own routes.                                 *)
(***************************************************************************)
EXTENDS Naturals, Sequences, SequencesExt, FiniteSets

CONSTANTS
    Events,
    Codes,          \* the codes the model suggests tasks by
    NoCode,         \* a suggestion without a code, or null
    Byhand,         \* the code of the tasks clients create
    Answers,        \* what the model may answer: a subset of Answer
    MaxByhand,      \* how many tasks clients create, at most
    Faults,         \* what may go wrong: a subset of FaultKinds
    Pipes           \* which servers are looked at: TRUE is the one with the ValidationPipe

\* "post": createEvent before it answers; "start": processEvent before its try, the missing
\* key of the model included; "work": a statement in its try; "review": the one in its catch
\* branch; "kill": the process.
FaultKinds == {"post", "start", "work", "review", "kill"}

\* An answer is an object with some of the three members the prompt asks for, or JSON's
\* null, or no JSON.
Answer == [kind : {"object", "null", "garbage"}, report : BOOLEAN,
           status : {"APPROVED", "NEEDS_REVIEW", "none"}, tasks : Seq(Codes \cup {NoCode})]

ASSUME MaintenanceAssumption ==
    /\ Answers \subseteq Answer
    /\ NoCode \notin Codes /\ Byhand \notin Codes \cup {NoCode}
    /\ MaxByhand \in Nat
    /\ Faults \subseteq FaultKinds
    /\ Pipes \subseteq BOOLEAN

VARIABLES
    validates,  \* the server refuses bodies with members their dto does not declare
    status,     \* per event, the column status
    reports,    \* history: per event, the statuses of the report nodes created for it
    created,    \* history: per event, the codes of the tasks created for it
    task,       \* the rows of tasks, in order of creation
    work        \* per event, where processEvent is and what it holds

mvars == <<validates, status, reports, created, task, work>>

MaintenanceEventStatus == {"RECEIVED", "PARSED", "COMPLETED", "NEEDS_REVIEW"}
Settled    == {"COMPLETED", "NEEDS_REVIEW"}
\* REJECTED stands for all statuses that no filter of an inbox names.
TaskStatus == {"PENDING", "COMPLETED", "REJECTED"}
TaskRow    == [event : Events \cup {Byhand}, code : Codes \cup {Byhand},
               status : TaskStatus \cup {"removed"}]

WorkPc   == {"unused", "parse", "chat", "report", "task", "review", "ended",
             "refused", "lost"}
WorkOpen == {"parse", "chat", "report", "task", "review"}
\* at is the next suggestion; the answer is kept as history when the work has ended.
WorkRecord == [pc : WorkPc, answer : Answer, at : Nat]

Nothing == [kind |-> "garbage", report |-> FALSE, status |-> "none", tasks |-> <<>>]

MInit ==
    /\ validates \in Pipes
    /\ status = [e \in Events |-> "none"]
    /\ reports = [e \in Events |-> <<>>]
    /\ created = [e \in Events |-> <<>>]
    /\ task = <<>>
    /\ work = [e \in Events |-> [pc |-> "unused", answer |-> Nothing, at |-> 1]]

Go(e, pc) == work' = [work EXCEPT ![e].pc = pc]

\* TasksService.create: a row of a project whose tenant is known.
Insert(e, code) == task' = Append(task, [event |-> e, code |-> code, status |-> "PENDING"])

Suggest(e, code) ==
    /\ Insert(e, code)
    /\ created' = [created EXCEPT ![e] = Append(@, code)]

----------------------------------------------------------------------------
(* Broken variants of operators below; they are no part of the specification *)

\* Broken variant of SuggestedTask: the tasks are not awaited.
SuggestedTaskDetached(e) ==
    /\ work[e].pc = "task" /\ work[e].at <= Len(work[e].answer.tasks)
    /\ LET code == work[e].answer.tasks[work[e].at]
       IN  IF code = NoCode THEN UNCHANGED <<created, task>> ELSE Suggest(e, code)
    /\ work' = [work EXCEPT ![e].at = @ + 1]
    /\ UNCHANGED <<validates, status, reports>>

\* Broken variant of Review: the catch branch only logs.
ReviewNever(e) ==
    /\ work[e].pc = "review"
    /\ Go(e, "ended")
    /\ UNCHANGED <<validates, status, reports, created, task>>

----------------------------------------------------------------------------
(* createEvent *)

\* maintenanceEvent.create; the answer goes out, and processEvent is on its own.
CreateEvent(e) ==
    /\ work[e].pc = "unused" /\ ~validates
    /\ status' = [status EXCEPT ![e] = "RECEIVED"]
    /\ Go(e, "parse")
    /\ UNCHANGED <<validates, reports, created, task>>

\* The dto declares its members without decorators: the ValidationPipe refuses each of them.
RefuseEvent(e) ==
    /\ work[e].pc = "unused"
    /\ validates \/ "post" \in Faults
    /\ Go(e, "refused")
    /\ UNCHANGED <<validates, status, reports, created, task>>

----------------------------------------------------------------------------
(* processEvent *)

\* The event is read, for its payload, and marked.
MarkParsed(e) ==
    /\ work[e].pc = "parse"
    /\ status' = [status EXCEPT ![e] = "PARSED"]
    /\ \/ Go(e, "chat")
       \/ "start" \in Faults /\ Go(e, "lost")      \* getChatModel throws without a key
    /\ UNCHANGED <<validates, reports, created, task>>

\* The query or the update throws: nobody but the log hears of it.
StartFails(e) ==
    /\ "start" \in Faults
    /\ work[e].pc = "parse"
    /\ Go(e, "lost")
    /\ UNCHANGED <<validates, status, reports, created, task>>

\* parseJson: what cannot be parsed counts as an empty object.
ParseJson(a) == IF a.kind = "garbage" THEN Nothing ELSE a

\* The model answers.  JSON's null has no member to ask for, and throws.
Ask(e, a) ==
    /\ work[e].pc = "chat"
    /\ LET result == ParseJson(a)
           next   == CASE result.kind = "null" -> "review"
                       [] result.kind # "null" /\ result.report -> "report"
                       [] OTHER -> "task"
       IN  work' = [work EXCEPT ![e] = [pc |-> next, answer |-> result, at |-> 1]]
    /\ UNCHANGED <<validates, status, reports, created, task>>

CreateReport(e) ==
    /\ work[e].pc = "report"
    /\ reports' = [reports EXCEPT ![e] = Append(@,
                     IF work[e].answer.status = "APPROVED" THEN "APPROVED" ELSE "DRAFT")]
    /\ Go(e, "task")
    /\ UNCHANGED <<validates, status, created, task>>

\* One suggestion becomes one task; one without a code throws.
SuggestedTask(e) ==
    /\ work[e].pc = "task" /\ work[e].at <= Len(work[e].answer.tasks)
    /\ LET code == work[e].answer.tasks[work[e].at]
       IN  IF code = NoCode THEN Go(e, "review") /\ UNCHANGED <<created, task>>
                            ELSE Suggest(e, code) /\ work' = [work EXCEPT ![e].at = @ + 1]
    /\ UNCHANGED <<validates, status, reports>>

Complete(e) ==
    /\ work[e].pc = "task" /\ work[e].at > Len(work[e].answer.tasks)
    /\ status' = [status EXCEPT ![e] = "COMPLETED"]
    /\ Go(e, "ended")
    /\ UNCHANGED <<validates, reports, created, task>>

WorkFails(e) ==
    /\ "work" \in Faults
    /\ work[e].pc \in {"chat", "report", "task"}
    /\ Go(e, "review")
    /\ UNCHANGED <<validates, status, reports, created, task>>

Review(e) ==
    /\ work[e].pc = "review"
    /\ status' = [status EXCEPT ![e] = "NEEDS_REVIEW"]
    /\ Go(e, "ended")
    /\ UNCHANGED <<validates, reports, created, task>>

ReviewFails(e) ==
    /\ "review" \in Faults
    /\ work[e].pc = "review"
    /\ Go(e, "lost")
    /\ UNCHANGED <<validates, status, reports, created, task>>

\* The process dies, or is frozen where it runs on demand: nothing takes up its events.
Kill ==
    /\ "kill" \in Faults
    /\ \E e \in Events : work[e].pc \in WorkOpen
    /\ work' = [e \in Events |->
                  IF work[e].pc \in WorkOpen THEN [work[e] EXCEPT !.pc = "lost"] ELSE work[e]]
    /\ UNCHANGED <<validates, status, reports, created, task>>

Process(e) ==
    \/ MarkParsed(e) \/ StartFails(e)
    \/ \E a \in Answers : Ask(e, a)
    \/ CreateReport(e) \/ SuggestedTask(e) \/ Complete(e) \/ WorkFails(e)
    \/ Review(e) \/ ReviewFails(e)

EventStep == (\E e \in Events : CreateEvent(e) \/ RefuseEvent(e) \/ Process(e)) \/ Kill

----------------------------------------------------------------------------
(* The routes of tasks *)

Row(i) == i \in DOMAIN task /\ task[i].status # "removed"

CreateTask ==
    /\ Cardinality({i \in DOMAIN task : task[i].event = Byhand}) < MaxByhand
    /\ Insert(Byhand, Byhand)
    /\ UNCHANGED <<validates, status, reports, created, work>>

\* PATCH, whatever the row's status is.
UpdateTask(i, s) ==
    /\ Row(i)
    /\ task' = [task EXCEPT ![i].status = s]
    /\ UNCHANGED <<validates, status, reports, created, work>>

RemoveTask(i) ==
    /\ Row(i)
    /\ task' = [task EXCEPT ![i].status = "removed"]
    /\ UNCHANGED <<validates, status, reports, created, work>>

TaskStep == CreateTask \/ \E i \in DOMAIN task : RemoveTask(i) \/ \E s \in TaskStatus : UpdateTask(i, s)

----------------------------------------------------------------------------

MNext == EventStep \/ TaskStep

MSpec == MInit /\ [][MNext]_mvars /\ \A e \in Events : WF_mvars(Process(e))

----------------------------------------------------------------------------
(* What the code keeps *)

MTypeOK ==
    /\ validates \in BOOLEAN
    /\ status \in [Events -> MaintenanceEventStatus \cup {"none"}]
    /\ reports \in [Events -> Seq({"APPROVED", "DRAFT"})]
    /\ created \in [Events -> Seq(Codes)]
    /\ task \in Seq(TaskRow)
    /\ work \in [Events -> WorkRecord]

\* However events are worked on side by side, and whatever throws or dies: an event that is
\* COMPLETED has its report once and exactly the suggested tasks, in order; any other has
\* no more than a first part of them.
WholeOrPart ==
    \A e \in Events :
        LET answer == work[e].answer IN
        /\ IsPrefix(created[e], answer.tasks)
        /\ Len(reports[e]) <= 1 /\ (reports[e] # <<>> => answer.report)
        /\ status[e] = "COMPLETED" =>
               created[e] = answer.tasks /\ (answer.report => reports[e] # <<>>)

\* An event that is stored is settled in the end and stays so, except where its process dies,
\* or throws outside the try.
EventsSettle ==
    <>[](\A e \in Events : status[e] = "none" \/ status[e] \in Settled \/ work[e].pc = "lost")

=============================================================================
