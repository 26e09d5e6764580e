----------------------------- MODULE TaskInbox -----------------------------
(***************************************************************************)
(* The task inbox of the client (TaskInbox.tsx) beside the maintenance     *)
(* service that fills it.  The inbox loads the tasks its filter names when *)
(* it opens, when the filter changes and after it has settled or created a *)
(* task; a load keeps the filter of the moment its function was made, and  *)
(* shows what it gets whenever it gets it.                                 *)
(***************************************************************************)
EXTENDS Maintenance

CONSTANTS
    MaxOps,         \* how many things one person does at the inbox, opening it included
    MaxForeign,     \* how often other clients create, change or remove a task, at most,
                    \* none of them after the person's last op has begun
    InboxFaults     \* which requests may fail, on their way or on the way back: a subset of
                    \* {"projects", "load", "change"}

ASSUME TaskInboxAssumption ==
    /\ MaxOps \in Nat \ {0} /\ MaxForeign \in Nat
    /\ InboxFaults \subseteq {"projects", "load", "change"}

VARIABLES
    filter,     \* the filter that is highlighted
    opened,     \* the project is known
    loading,    \* a spinner is shown in place of the list
    shown,      \* the list: pairs of a task and the status it had
    op,         \* per op, the request it is waiting for
    unheard,    \* history: tasks created, changed or removed since the last load was answered
    touches,    \* history: how often other clients did so
    clean       \* history: the load that is shown had the inbox to itself, and none has been
                \* answered or has failed since

view == <<filter, opened, loading, shown, unheard, clean>>
vars == <<mvars, view, touches, op>>

\* Ops are numbered in order of beginning; the first opens the inbox.
Ops     == 1..MaxOps
Filters == {"PENDING", "COMPLETED", "ALL"}
OpPc    == {"unused", "projects", "update", "create", "changed", "load", "answered", "ended"}
OpOpen  == {"projects", "update", "create", "changed", "load", "answered"}

\* by is the filter the op's functions hold; task and to are what it settles; alone is
\* history: no other op was open since it began.
NoTask   == 0
OpRecord == [pc : OpPc, by : Filters, task : Nat, to : TaskStatus,
             rows : SUBSET (Nat \X TaskStatus), alone : BOOLEAN]
NewOp(pc, by, alone) ==
    [pc |-> pc, by |-> by, task |-> NoTask, to |-> "PENDING", rows |-> {}, alone |-> alone]

\* What TasksService.findAll finds.
Rows(by) == {<<i, task[i].status>> : i \in {j \in DOMAIN task :
                Row(j) /\ (by = "ALL" \/ task[j].status = by)}}

Rest == \A o \in Ops : op[o].pc \notin OpOpen

Init ==
    /\ MInit
    /\ filter = "PENDING" /\ opened = FALSE /\ loading = TRUE /\ shown = {}
    /\ op = [o \in Ops |-> NewOp(IF o = 1 THEN "projects" ELSE "unused", "PENDING", o = 1)]
    /\ unheard = {} /\ touches = 0 /\ clean = FALSE

\* Something is done: whatever else is under way is no longer alone.
Begin(o, record) ==
    /\ op[o].pc = "unused" /\ (o > 1 => op[o - 1].pc # "unused")
    /\ op' = [p \in Ops |-> IF p = o THEN record ELSE [op[p] EXCEPT !.alone = FALSE]]

End(o) == op' = [op EXCEPT ![o] = NewOp("ended", "PENDING", FALSE)]

----------------------------------------------------------------------------
(* A broken variant of ChooseFilter below; it is no part of the specification *)

\* The load is started where the filter is set, with the filter there was.
ChooseFilterOld(o, f) ==
    /\ f # filter
    /\ filter' = f
    /\ IF opened THEN Begin(o, NewOp("load", filter, Rest)) /\ loading' = TRUE
                 ELSE op' = [p \in Ops |-> [op[p] EXCEPT !.alone = FALSE]] /\ UNCHANGED loading
    /\ UNCHANGED <<mvars, opened, shown, unheard, clean>>

----------------------------------------------------------------------------
(* What the person does *)

\* The effect of filter: while the project is not known it does nothing.
ChooseFilter(o, f) ==
    /\ f # filter
    /\ filter' = f
    /\ IF opened THEN Begin(o, NewOp("load", f, Rest)) /\ loading' = TRUE
                 ELSE op' = [p \in Ops |-> [op[p] EXCEPT !.alone = FALSE]] /\ UNCHANGED loading
    /\ UNCHANGED <<mvars, opened, shown, unheard, clean>>

\* The list has its place when no load is under way.
List == IF loading THEN {} ELSE shown

\* Mark Complete and Reject: the buttons are there for what is shown as PENDING.
Settleable == {i \in DOMAIN task : <<i, "PENDING">> \in List}

HandleStatusChange(o, i, s) ==
    /\ opened /\ i \in Settleable
    /\ Begin(o, [NewOp("update", filter, Rest) EXCEPT !.task = i, !.to = s])
    /\ UNCHANGED <<mvars, view>>

\* The form, which can be sent again while a task is being created.
HandleCreateTask(o) ==
    /\ opened
    /\ Begin(o, NewOp("create", filter, Rest))
    /\ UNCHANGED <<mvars, view>>

----------------------------------------------------------------------------
(* What comes back *)

Load(o) ==
    /\ op' = [op EXCEPT ![o].pc = "load"]
    /\ loading' = TRUE

\* The first project is the inbox's.
ProjectsKnown(o) ==
    /\ op[o].pc = "projects"
    /\ opened' = TRUE
    /\ Load(o)
    /\ UNCHANGED <<mvars, filter, shown, unheard, clean>>

\* The request fails, or there is no project.
ProjectsFail(o) ==
    /\ "projects" \in InboxFaults
    /\ op[o].pc = "projects"
    /\ loading' = FALSE
    /\ End(o)
    /\ UNCHANGED <<mvars, filter, opened, shown, unheard, clean>>

\* What happens to the tasks counts from the answer to a load on, until the next.
Counts  == clean \/ \E o \in Ops : op[o].pc = "answered" /\ op[o].alone
Touched == {i \in DOMAIN task' : i \notin DOMAIN task \/ task[i] # task'[i]}
Touch   == unheard' = IF Counts THEN unheard \cup Touched ELSE unheard

\* The server changes the task; the answer is on its way.
Updated(o) ==
    /\ op[o].pc = "update"
    /\ UpdateTask(op[o].task, op[o].to)
    /\ op' = [op EXCEPT ![o].pc = "changed"]
    /\ Touch
    /\ UNCHANGED <<filter, opened, loading, shown, clean>>

\* The server creates the task.
Inserted(o) ==
    /\ op[o].pc = "create" /\ ~validates
    /\ CreateTask
    /\ op' = [op EXCEPT ![o].pc = "changed"]
    /\ Touch
    /\ UNCHANGED <<filter, opened, loading, shown, clean>>

\* The answer arrives, and the list is loaded with the filter the op's functions hold.
Changed(o) ==
    /\ op[o].pc = "changed"
    /\ Load(o)
    /\ UNCHANGED <<mvars, filter, opened, shown, unheard, clean>>

\* The change is of a row that is gone, or has a status, which the dto of POST does not declare
\* and createProjectTask sends; or its request or its answer is lost: an alert, and no load.
ChangeFails(o) ==
    /\ \/ "change" \in InboxFaults /\ op[o].pc \in {"update", "create", "changed"}
       \/ op[o].pc = "update" /\ ~Row(op[o].task)
       \/ op[o].pc = "create" /\ validates
    /\ End(o)
    /\ UNCHANGED <<mvars, filter, opened, loading, shown, unheard, clean>>

\* The server answers a load.
Answered(o) ==
    /\ op[o].pc = "load"
    /\ op' = [op EXCEPT ![o].pc = "answered", ![o].rows = Rows(op[o].by)]
    /\ unheard' = {}
    /\ clean' = FALSE
    /\ UNCHANGED <<mvars, filter, opened, loading, shown>>

\* loadTasks shows the answer, even where another load has been started since.
Loaded(o) ==
    /\ op[o].pc = "answered"
    /\ shown' = op[o].rows
    /\ loading' = FALSE
    /\ clean' = op[o].alone
    /\ unheard' = IF op[o].alone THEN unheard ELSE {}
    /\ End(o)
    /\ UNCHANGED <<mvars, filter, opened>>

LoadFails(o) ==
    /\ "load" \in InboxFaults
    /\ op[o].pc = "load"
    /\ loading' = FALSE
    /\ clean' = FALSE
    /\ End(o)
    /\ UNCHANGED <<mvars, filter, opened, shown, unheard>>

----------------------------------------------------------------------------

Inbox(o) ==
    \/ \E f \in Filters : ChooseFilter(o, f)
    \/ \E i \in DOMAIN task, s \in {"COMPLETED", "REJECTED"} : HandleStatusChange(o, i, s)
    \/ HandleCreateTask(o)
    \/ ProjectsKnown(o) \/ ProjectsFail(o)
    \/ Updated(o) \/ Inserted(o) \/ Changed(o) \/ ChangeFails(o)
    \/ Answered(o) \/ Loaded(o) \/ LoadFails(o)

\* Of what everybody else creates, changes or removes the inbox does not hear.
Unheard ==
    /\ Touch
    /\ UNCHANGED <<filter, opened, loading, shown, op, clean>>

Others ==
    \/ EventStep /\ UNCHANGED touches /\ Unheard
    \/ TaskStep /\ task' # task /\ touches < MaxForeign /\ op[MaxOps].pc = "unused" /\ touches' = touches + 1 /\ Unheard

\* The continuations of processEvent run.
Served(e) == Process(e) /\ UNCHANGED touches /\ Unheard

Next == Others \/ \E o \in Ops : Inbox(o) /\ UNCHANGED touches

Spec == Init /\ [][Next]_vars /\ \A e \in Events : WF_vars(Served(e))

----------------------------------------------------------------------------

TypeOK ==
    /\ MTypeOK
    /\ filter \in Filters /\ opened \in BOOLEAN /\ loading \in BOOLEAN /\ clean \in BOOLEAN
    /\ shown \subseteq (DOMAIN task) \X TaskStatus /\ unheard \subseteq DOMAIN task
    /\ touches \in 0..MaxForeign
    /\ op \in [Ops -> OpRecord]

\* Whatever was done in a hurry before and whatever failed, an inbox at rest is not spinning.
\* And where the load it shows had the inbox to itself, and no later one was answered or failed,
\* the list is what the highlighted filter names, as it is: of all tasks but those touched since
\* that load, by others or by a change from here whose answer was lost.
InboxShowsFilter ==
    Rest => /\ ~loading
            /\ clean => \A i \in DOMAIN task \ unheard : \A s \in TaskStatus :
                   <<i, s>> \in shown <=> <<i, s>> \in Rows(filter)

=============================================================================
