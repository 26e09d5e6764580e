---------------------------- MODULE Pages_proofs ----------------------------
(***************************************************************************)
(* Proofs about the pages of the client and about the maintenance service  *)
(* that fills one of them, for any events, tasks, documents, nodes, audits *)
(* and projects, however many requests are under way.                      *)
(***************************************************************************)
EXTENDS Pages, FiniteSetTheorems, SequenceTheorems, TLAPS

(***************************************************************************)
(* Type correctness.                                                       *)
(***************************************************************************)
LEMMA NothingType ==
  /\ Nothing \in Answer /\ Nothing.tasks = <<>>
  /\ \A a \in Answer : ParseJson(a) \in Answer
  BY DEF Nothing, Answer, ParseJson

LEMMA TaskInserted ==
  ASSUME MTypeOK, NEW e \in Events \cup {Byhand}, NEW code \in Codes \cup {Byhand}, Insert(e, code)
  PROVE  task' \in Seq(TaskRow)
  <1> DEFINE r == [event |-> e, code |-> code, status |-> "PENDING"]
  <1>1. r \in TaskRow
    BY DEF TaskRow, TaskStatus
  <1>2. task' = Append(task, r) /\ task \in Seq(TaskRow)
    BY DEF Insert, MTypeOK
  <1> QED BY <1>1, <1>2, AppendProperties

\* The row of an event's work changes, and no other.
LEMMA WorkMoved ==
  ASSUME MTypeOK, NEW e \in Events, NEW STATE w, w \in WorkRecord, work' = [work EXCEPT ![e] = w]
  PROVE  work' \in [Events -> WorkRecord] /\ work'[e] = w
         /\ \A d \in Events : d # e => work'[d] = work[d]
  BY DEF MTypeOK

LEMMA WorkWent ==
  ASSUME MTypeOK, NEW e \in Events, NEW pc \in WorkPc, Go(e, pc)
  PROVE  /\ work' \in [Events -> WorkRecord]
         /\ work'[e].pc = pc /\ work'[e].answer = work[e].answer /\ work'[e].at = work[e].at
         /\ \A d \in Events : d # e => work'[d] = work[d]
  <1> DEFINE w == [work[e] EXCEPT !.pc = pc]
  <1>1. w \in WorkRecord /\ w.pc = pc /\ w.answer = work[e].answer /\ w.at = work[e].at
    BY DEF MTypeOK, WorkRecord
  <1>2. work' = [work EXCEPT ![e] = w]
    BY DEF Go
  <1> HIDE DEF w
  <1> QED BY <1>1, <1>2, WorkMoved

LEMMA WorkCounted ==
  ASSUME MTypeOK, NEW e \in Events, work' = [work EXCEPT ![e].at = @ + 1]
  PROVE  /\ work' \in [Events -> WorkRecord]
         /\ work'[e].pc = work[e].pc /\ work'[e].answer = work[e].answer
         /\ work'[e].at = work[e].at + 1
         /\ \A d \in Events : d # e => work'[d] = work[d]
  <1>0. work[e] \in WorkRecord /\ work[e].at \in Nat
    BY DEF MTypeOK, WorkRecord
  <1>1. work[e].at + 1 \in Nat
    BY <1>0
  <1> DEFINE w == [work[e] EXCEPT !.at = work[e].at + 1]
  <1>2. work' = [work EXCEPT ![e] = w]
    OBVIOUS
  <1>3. w \in WorkRecord /\ w.pc = work[e].pc /\ w.answer = work[e].answer /\ w.at = work[e].at + 1
    BY <1>0, <1>1 DEF WorkRecord
  <1> HIDE DEF w
  <1> QED BY <1>2, <1>3, WorkMoved

LEMMA InitMType == MInit => MTypeOK
  <1> SUFFICES ASSUME MInit PROVE MTypeOK
    OBVIOUS
  <1>1. [pc |-> "unused", answer |-> Nothing, at |-> 1] \in WorkRecord
    BY NothingType DEF WorkRecord, WorkPc
  <1>2. validates \in BOOLEAN
    BY MaintenanceAssumption DEF MInit
  <1> QED BY <1>1, <1>2 DEF MInit, MTypeOK

\* What a step of processEvent or of createEvent does to one event and to no other.
LEMMA ReportCreated ==
  ASSUME MTypeOK, NEW e \in Events, CreateReport(e)
  PROVE  /\ reports' \in [Events -> Seq({"APPROVED", "DRAFT"})]
         /\ Len(reports'[e]) = Len(reports[e]) + 1
         /\ \A d \in Events : d # e => reports'[d] = reports[d]
  <1> DEFINE s == IF work[e].answer.status = "APPROVED" THEN "APPROVED" ELSE "DRAFT"
  <1>1. s \in {"APPROVED", "DRAFT"} /\ reports[e] \in Seq({"APPROVED", "DRAFT"})
    BY DEF MTypeOK
  <1>2. Append(reports[e], s) \in Seq({"APPROVED", "DRAFT"}) /\ Len(Append(reports[e], s)) = Len(reports[e]) + 1
    BY <1>1, AppendProperties
  <1>3. reports' = [reports EXCEPT ![e] = Append(reports[e], s)]
    BY DEF CreateReport
  <1> QED BY <1>2, <1>3 DEF MTypeOK

LEMMA TaskSuggested ==
  ASSUME MTypeOK, NEW e \in Events, NEW code \in Codes, Suggest(e, code)
  PROVE  /\ task' \in Seq(TaskRow) /\ created' \in [Events -> Seq(Codes)]
         /\ created'[e] = Append(created[e], code)
         /\ \A d \in Events : d # e => created'[d] = created[d]
  <1>1. task' \in Seq(TaskRow)
    BY TaskInserted DEF Suggest
  <1>2. Append(created[e], code) \in Seq(Codes)
    BY AppendProperties DEF MTypeOK
  <1> QED BY <1>1, <1>2 DEF Suggest, MTypeOK

\* The next suggestion is there, and is a code or none.
LEMMA SuggestionType ==
  ASSUME MTypeOK, NEW e \in Events, SuggestedTask(e), work[e].at # 0
  PROVE  work[e].answer.tasks[work[e].at] \in Codes \cup {NoCode}
  <1>1. /\ work[e].answer.tasks \in Seq(Codes \cup {NoCode}) /\ work[e].at \in Nat
        /\ work[e].at <= Len(work[e].answer.tasks)
    BY DEF MTypeOK, WorkRecord, Answer, SuggestedTask
  <1> QED BY <1>1

(***************************************************************************)
(* WholeOrPart.  The tasks of an event are a first part of the answer's,   *)
(* the next suggestion is the one after them, and the report precedes      *)
(* them; an event is marked COMPLETED at the end of both only.             *)
(***************************************************************************)
Worked(e) ==
    LET given == work[e].answer.tasks IN
    /\ work[e].at # 0
    /\ work[e].pc \in {"unused", "parse", "chat", "report"} =>
           created[e] = <<>> /\ reports[e] = <<>> /\ work[e].at = 1
    /\ work[e].pc = "report" => work[e].answer.report
    /\ work[e].pc = "task" => /\ work[e].at = Len(created[e]) + 1
                              /\ work[e].answer.report => reports[e] # <<>>
    /\ Len(created[e]) <= Len(given) /\ \A i \in 1..Len(created[e]) : created[e][i] = given[i]
    /\ Len(reports[e]) <= 1 /\ (reports[e] # <<>> => work[e].answer.report)
    /\ status[e] = "COMPLETED" =>
           /\ work[e].pc = "ended" /\ Len(created[e]) = Len(given)
           /\ work[e].answer.report => reports[e] # <<>>

WorkInv == MTypeOK /\ \A e \in Events : Worked(e)

LEMMA InitWork == MInit => WorkInv
  <1> SUFFICES ASSUME MInit PROVE \A e \in Events : Worked(e)
    BY InitMType DEF WorkInv
  <1> QED BY NothingType DEF MInit, Worked

\* What is known of one event depends on its own work, report, tasks and status alone.
LEMMA OthersWorked ==
  ASSUME NEW e, Worked(e), work'[e] = work[e], reports'[e] = reports[e], created'[e] = created[e],
         status'[e] = status[e]
  PROVE  Worked(e)'
  BY DEF Worked

LEMMA EventWork == WorkInv /\ EventStep => WorkInv'
  <1> SUFFICES ASSUME WorkInv, EventStep PROVE WorkInv'
    OBVIOUS
  <1>0. MTypeOK /\ \A e \in Events : Worked(e)
    BY DEF WorkInv
  \* The step of an event that leaves reports and tasks alone.
  <1>1. ASSUME NEW e \in Events, NEW pc \in WorkPc \ {"unused", "report", "task"}, Go(e, pc),
               UNCHANGED <<validates, reports, created, task>>,
               status' \in [Events -> MaintenanceEventStatus \cup {"none"}],
               \A d \in Events : d # e => status'[d] = status[d],
               work[e].pc \notin {"unused", "parse"} => pc \notin {"parse", "chat"},
               work[e].pc = "parse" => pc # "parse",
               status'[e] = "COMPLETED" => /\ pc = "ended" /\ Len(created[e]) = Len(work[e].answer.tasks)
                                           /\ work[e].answer.report => reports[e] # <<>>
        PROVE  WorkInv'
    <2>1. /\ work' \in [Events -> WorkRecord]
          /\ work'[e].pc = pc /\ work'[e].answer = work[e].answer /\ work'[e].at = work[e].at
          /\ \A d \in Events : d # e => work'[d] = work[d]
      BY <1>0, <1>1, WorkWent
    <2>2. MTypeOK'
      BY <1>0, <1>1, <2>1 DEF MTypeOK
    <2>3. Worked(e)'
      BY <1>0, <1>1, <2>1 DEF Worked
    <2>4. \A d \in Events : d # e => Worked(d)'
      BY <1>0, <1>1, <2>1, OthersWorked
    <2> QED BY <2>2, <2>3, <2>4 DEF WorkInv
  <1> HIDE DEF WorkInv
  <1>s. /\ \A e \in Events : status[e] \in MaintenanceEventStatus \cup {"none"}
        /\ status \in [Events -> MaintenanceEventStatus \cup {"none"}]
    BY <1>0 DEF MTypeOK
  <1>2. ASSUME NEW e \in Events, CreateEvent(e) \/ RefuseEvent(e) \/ MarkParsed(e) \/ StartFails(e)
        PROVE  WorkInv'
    <2>1. /\ \E pc \in {"parse", "chat", "refused", "lost"} :
               Go(e, pc) /\ (work[e].pc = "parse" => pc # "parse")
          /\ UNCHANGED <<validates, reports, created, task>>
          /\ work[e].pc \in {"unused", "parse"}
          /\ \E s \in {"RECEIVED", "PARSED", status[e]} : status' = [status EXCEPT ![e] = s]
      BY <1>2, <1>s DEF CreateEvent, RefuseEvent, MarkParsed, StartFails
    <2>2. status[e] # "COMPLETED"
      BY <1>0, <2>1 DEF Worked
    <2>3. /\ status' \in [Events -> MaintenanceEventStatus \cup {"none"}] /\ status'[e] # "COMPLETED"
          /\ \A d \in Events : d # e => status'[d] = status[d]
      BY <1>s, <2>1, <2>2 DEF MaintenanceEventStatus
    <2> QED BY <1>1, <2>1, <2>3 DEF WorkPc
  <1>3. ASSUME NEW e \in Events, Complete(e) \/ WorkFails(e) \/ Review(e) \/ ReviewFails(e)
        PROVE  WorkInv'
    <2>1. /\ \E pc \in {"ended", "review", "lost"} : Go(e, pc) /\ (Complete(e) => pc = "ended")
          /\ UNCHANGED <<validates, reports, created, task>>
          /\ work[e].pc \in {"chat", "report", "task", "review"}
          /\ \E s \in {"COMPLETED", "NEEDS_REVIEW", status[e]} :
               status' = [status EXCEPT ![e] = s] /\ (s = "COMPLETED" => Complete(e))
      BY <1>0, <1>3, <1>s DEF Complete, WorkFails, Review, ReviewFails, Go, Worked
    <2>2. status[e] # "COMPLETED"
      BY <1>0, <2>1 DEF Worked
    <2>3. /\ status' \in [Events -> MaintenanceEventStatus \cup {"none"}]
          /\ \A d \in Events : d # e => status'[d] = status[d]
          /\ status'[e] = "COMPLETED" => Complete(e)
      BY <1>s, <2>1, <2>2 DEF MaintenanceEventStatus
    <2>4. ASSUME Complete(e)
          PROVE  Len(created[e]) = Len(work[e].answer.tasks) /\ (work[e].answer.report => reports[e] # <<>>)
      <3>1. work[e].pc = "task" /\ work[e].at > Len(work[e].answer.tasks)
        BY <2>4 DEF Complete
      <3>2. /\ Len(work[e].answer.tasks) \in Nat /\ Len(created[e]) \in Nat
        BY <1>0 DEF MTypeOK, WorkRecord, Answer
      <3> QED BY <1>0, <3>1, <3>2 DEF Worked
    <2> QED BY <1>1, <2>1, <2>3, <2>4 DEF WorkPc
  <1>4. ASSUME NEW e \in Events, NEW a \in Answers, Ask(e, a) PROVE WorkInv'
    <2> DEFINE result == ParseJson(a)
               next == CASE result.kind = "null" -> "review"
                         [] result.kind # "null" /\ result.report -> "report"
                         [] OTHER -> "task"
               w == [pc |-> next, answer |-> result, at |-> 1]
    <2>1. result \in Answer
      BY NothingType, MaintenanceAssumption
    <2>2. next \in {"review", "report", "task"} /\ (next = "report" => result.report)
          /\ (next = "task" => ~result.report)
      BY <2>1 DEF Answer
    <2>3. /\ work[e].pc = "chat" /\ UNCHANGED <<validates, status, reports, created, task>>
          /\ work' = [work EXCEPT ![e] = w]
      BY <1>4 DEF Ask
    <2> HIDE DEF result, next
    <2>4. w \in WorkRecord /\ w.pc = next /\ w.answer = result /\ w.at = 1
      BY <2>1, <2>2 DEF WorkRecord, WorkPc
    <2> HIDE DEF w
    <2>5. /\ work' \in [Events -> WorkRecord] /\ work'[e] = w
          /\ \A d \in Events : d # e => work'[d] = work[d]
      BY <1>0, <2>3, <2>4, WorkMoved
    <2>6. created[e] = <<>> /\ reports[e] = <<>> /\ status[e] # "COMPLETED"
      BY <1>0, <2>3 DEF Worked
    <2>7. Len(result.tasks) \in Nat
      BY <2>1 DEF Answer
    <2>8. Worked(e)'
      BY <2>2, <2>3, <2>4, <2>5, <2>6, <2>7 DEF Worked
    <2>9. \A d \in Events : d # e => Worked(d)'
      BY <1>0, <2>3, <2>5, OthersWorked
    <2> QED BY <1>0, <2>3, <2>5, <2>8, <2>9 DEF WorkInv, MTypeOK
  <1>5. ASSUME NEW e \in Events, CreateReport(e) PROVE WorkInv'
    <2>1. /\ work[e].pc = "report" /\ UNCHANGED <<validates, status, created, task>> /\ Go(e, "task")
      BY <1>5 DEF CreateReport
    <2>2. /\ work' \in [Events -> WorkRecord]
          /\ work'[e].pc = "task" /\ work'[e].answer = work[e].answer /\ work'[e].at = work[e].at
          /\ \A d \in Events : d # e => work'[d] = work[d]
      BY <1>0, <2>1, WorkWent DEF WorkPc
    <2>3. /\ reports' \in [Events -> Seq({"APPROVED", "DRAFT"})]
          /\ Len(reports'[e]) = Len(reports[e]) + 1
          /\ \A d \in Events : d # e => reports'[d] = reports[d]
      BY <1>0, <1>5, ReportCreated
    <2>4. Len(reports'[e]) = 1 /\ reports'[e] # <<>>
      BY <1>0, <2>1, <2>3 DEF Worked
    <2>5. Worked(e)'
      BY <1>0, <2>1, <2>2, <2>4 DEF Worked
    <2>6. \A d \in Events : d # e => Worked(d)'
      BY <1>0, <2>1, <2>2, <2>3, OthersWorked
    <2> QED BY <1>0, <2>1, <2>2, <2>3, <2>5, <2>6 DEF WorkInv, MTypeOK
  <1>6. ASSUME NEW e \in Events, SuggestedTask(e) PROVE WorkInv'
    <2> DEFINE given == work[e].answer.tasks
               code == given[work[e].at]
    <2>1. /\ work[e].pc = "task" /\ work[e].at <= Len(given)
          /\ UNCHANGED <<validates, status, reports>>
      BY <1>6 DEF SuggestedTask
    <2>2. work[e].at # 0 /\ work[e].at = Len(created[e]) + 1 /\ status[e] # "COMPLETED"
      BY <1>0, <2>1 DEF Worked
    <2>3. code \in Codes \cup {NoCode}
      BY <1>0, <1>6, <2>2, SuggestionType
    <2>4. CASE code = NoCode
      <3>1. Go(e, "review") /\ UNCHANGED <<created, task>>
        BY <1>6, <2>4 DEF SuggestedTask
      <3> QED BY <1>1, <1>s, <2>1, <2>2, <3>1 DEF WorkPc
    <2>5. CASE code # NoCode
      <3>1. Suggest(e, code) /\ work' = [work EXCEPT ![e].at = @ + 1]
        BY <1>6, <2>5 DEF SuggestedTask
      <3>2. /\ work' \in [Events -> WorkRecord]
            /\ work'[e].pc = work[e].pc /\ work'[e].answer = work[e].answer
            /\ work'[e].at = work[e].at + 1
            /\ \A d \in Events : d # e => work'[d] = work[d]
        BY <1>0, <3>1, WorkCounted
      <3>3. /\ task' \in Seq(TaskRow) /\ created' \in [Events -> Seq(Codes)]
            /\ created'[e] = Append(created[e], code)
            /\ \A d \in Events : d # e => created'[d] = created[d]
        BY <1>0, <2>3, <2>5, <3>1, TaskSuggested
      <3>4. created[e] \in Seq(Codes) /\ Len(created[e]) \in Nat /\ given \in Seq(Codes \cup {NoCode})
            /\ Len(given) \in Nat
        BY <1>0 DEF MTypeOK, WorkRecord, Answer
      <3>5. /\ Len(created'[e]) = Len(created[e]) + 1 /\ created'[e][Len(created[e]) + 1] = code
            /\ \A i \in 1..Len(created[e]) : created'[e][i] = created[e][i]
        BY <2>3, <2>5, <3>3, <3>4
      <3>6. Len(created'[e]) <= Len(given) /\ \A i \in 1..Len(created'[e]) : created'[e][i] = given[i]
        <4>1. \A i \in 1..Len(created[e]) : created[e][i] = given[i]
          BY <1>0 DEF Worked
        <4>2. work[e].at = Len(created'[e]) /\ code = given[work[e].at]
          BY <2>2, <3>5
        <4>3. \A i \in 1..Len(created'[e]) : i \in 1..Len(created[e]) \/ i = work[e].at
          BY <3>4, <3>5, <4>2
        <4> HIDE DEF given, code
        <4>4. \A i \in 1..Len(created'[e]) : created'[e][i] = given[i]
          BY <2>2, <3>5, <4>1, <4>2, <4>3
        <4> QED BY <2>1, <3>4, <4>2, <4>4
      <3> HIDE DEF code
      <3>7. Worked(e)'
        BY <1>0, <2>1, <2>2, <3>2, <3>4, <3>5, <3>6 DEF Worked
      <3>8. \A d \in Events : d # e => Worked(d)'
        BY <1>0, <2>1, <3>2, <3>3, OthersWorked
      <3> QED BY <1>0, <2>1, <3>2, <3>3, <3>7, <3>8 DEF WorkInv, MTypeOK
    <2> QED BY <2>3, <2>4, <2>5
  <1>7. CASE Kill
    <2>1. /\ UNCHANGED <<validates, status, reports, created, task>>
          /\ work' = [e \in Events |->
                  IF work[e].pc \in WorkOpen THEN [work[e] EXCEPT !.pc = "lost"] ELSE work[e]]
      BY <1>7 DEF Kill
    <2>2. /\ work' \in [Events -> WorkRecord]
          /\ \A e \in Events : \/ work'[e] = work[e]
                               \/ /\ work'[e].pc = "lost" /\ work'[e].answer = work[e].answer
                                  /\ work'[e].at = work[e].at /\ work[e].pc # "ended"
      BY <1>0, <2>1 DEF MTypeOK, WorkRecord, WorkPc, WorkOpen
    <2>3. ASSUME NEW e \in Events PROVE Worked(e)'
      <3>1. CASE work'[e] = work[e]
        BY <1>0, <2>1, <3>1, OthersWorked
      <3>2. CASE work'[e].pc = "lost" /\ work'[e].answer = work[e].answer /\ work'[e].at = work[e].at
                 /\ work[e].pc # "ended"
        BY <1>0, <2>1, <3>2 DEF Worked
      <3> QED BY <2>2, <3>1, <3>2
    <2> QED BY <1>0, <2>1, <2>2, <2>3 DEF WorkInv, MTypeOK
  <1> QED BY <1>2, <1>3, <1>4, <1>5, <1>6, <1>7 DEF EventStep, Process

LEMMA TaskWork == WorkInv /\ TaskStep => WorkInv'
  <1> SUFFICES ASSUME WorkInv, TaskStep PROVE WorkInv'
    OBVIOUS
  <1>1. UNCHANGED <<validates, status, reports, created, work>>
    BY DEF TaskStep, CreateTask, RemoveTask, UpdateTask
  <1>2. task' \in Seq(TaskRow)
    <2>1. CASE CreateTask
      BY <2>1, TaskInserted DEF CreateTask, WorkInv
    <2>2. ASSUME NEW i \in DOMAIN task, NEW s \in TaskStatus \cup {"removed"},
                 task' = [task EXCEPT ![i].status = s]
          PROVE  task' \in Seq(TaskRow)
      <3> DEFINE r == [task[i] EXCEPT !.status = s]
      <3>1. task \in Seq(TaskRow) /\ task[i] \in TaskRow
        BY ElementOfSeq DEF WorkInv, MTypeOK
      <3>2. r \in TaskRow
        BY <3>1 DEF TaskRow
      <3>3. task' = [task EXCEPT ![i] = r]
        BY <2>2
      <3> HIDE DEF r
      <3> QED BY <3>1, <3>2, <3>3, ExceptSeq
    <2> QED BY <2>1, <2>2 DEF TaskStep, RemoveTask, UpdateTask
  <1>3. \A e \in Events : Worked(e)'
    BY <1>1 DEF WorkInv, Worked
  <1> QED BY <1>1, <1>2, <1>3 DEF WorkInv, MTypeOK

LEMMA WorkStep == WorkInv /\ [MNext]_mvars => WorkInv'
  <1> SUFFICES ASSUME WorkInv, [MNext]_mvars PROVE WorkInv'
    OBVIOUS
  <1>1. CASE UNCHANGED mvars
    BY <1>1 DEF mvars, WorkInv, Worked, MTypeOK
  <1> QED BY <1>1, EventWork, TaskWork DEF MNext

----------------------------------------------------------------------------

\* Every reachable state of the events, their work and the tasks is well typed.
THEOREM TypeCorrect == MSpec => []MTypeOK
  <1>1. WorkInv => MTypeOK
    BY DEF WorkInv
  <1> QED BY <1>1, InitWork, WorkStep, PTL DEF MSpec

LEMMA WorkIsWhole == WorkInv => WholeOrPart
  <1> SUFFICES ASSUME WorkInv, NEW e \in Events
               PROVE  LET answer == work[e].answer IN
                      /\ IsPrefix(created[e], answer.tasks)
                      /\ Len(reports[e]) <= 1 /\ (reports[e] # <<>> => answer.report)
                      /\ status[e] = "COMPLETED" =>
                             created[e] = answer.tasks /\ (answer.report => reports[e] # <<>>)
    BY DEF WholeOrPart
  <1> DEFINE given == work[e].answer.tasks
  <1>1. created[e] \in Seq(Codes \cup {NoCode}) /\ given \in Seq(Codes \cup {NoCode})
    BY DEF WorkInv, MTypeOK, WorkRecord, Answer
  <1>2. Len(created[e]) <= Len(given) /\ \A i \in 1..Len(created[e]) : created[e][i] = given[i]
    BY DEF WorkInv, Worked
  <1>3. IsPrefix(created[e], given)
    BY <1>1, <1>2 DEF IsPrefix
  <1>4. Len(created[e]) = Len(given) => created[e] = given
    BY <1>1, <1>2
  <1> QED BY <1>3, <1>4 DEF WorkInv, Worked

\* However events are worked on side by side, whatever the model answers and whatever throws
\* or dies: a COMPLETED event has its report and exactly the suggested tasks, in order, and
\* any other no more than a first part of them.
THEOREM WholeOrFirstPart == MSpec => []WholeOrPart
  <1> QED BY WorkIsWhole, InitWork, WorkStep, PTL DEF MSpec

----------------------------------------------------------------------------
(***************************************************************************)
(* The task inbox.  What it does to tasks, the routes of tasks do; rows    *)
(* are never taken from the table, so that what was shown stays there.     *)
(***************************************************************************)
LEMMA WorkRowType == ASSUME MTypeOK, NEW i \in DOMAIN task PROVE task[i] \in TaskRow
  BY ElementOfSeq DEF MTypeOK

LEMMA InboxMaintains == TypeOK /\ [Next]_vars => [MNext]_mvars
  <1> SUFFICES ASSUME TypeOK, [Next]_vars PROVE [MNext]_mvars
    OBVIOUS
  <1>1. CASE UNCHANGED vars
    BY <1>1 DEF vars
  <1>2. CASE Others
    BY <1>2 DEF Others, MNext
  <1>3. ASSUME NEW o \in Ops, Inbox(o) PROVE [MNext]_mvars
    <2>1. CASE Updated(o)
      <3>1. op[o].to \in TaskStatus /\ UpdateTask(op[o].task, op[o].to)
        BY <2>1 DEF Updated, TypeOK, OpRecord
      <3>2. op[o].task \in DOMAIN task
        BY <3>1 DEF UpdateTask, Row
      <3> QED BY <3>1, <3>2 DEF MNext, TaskStep
    <2>2. CASE Inserted(o)
      BY <2>2 DEF Inserted, MNext, TaskStep
    <2>3. CASE ~Updated(o) /\ ~Inserted(o)
      BY <1>3, <2>3 DEF Inbox, ChooseFilter, HandleStatusChange, HandleCreateTask, ProjectsKnown,
         ProjectsFail, Changed, ChangeFails, Answered, Loaded, LoadFails
    <2> QED BY <2>1, <2>2, <2>3
  <1> QED BY <1>1, <1>2, <1>3 DEF Next

LEMMA RowsStay == MTypeOK /\ [MNext]_mvars => DOMAIN task \subseteq DOMAIN task'
  <1> SUFFICES ASSUME MTypeOK, [MNext]_mvars PROVE DOMAIN task \subseteq DOMAIN task'
    OBVIOUS
  <1>0. task \in Seq(TaskRow)
    BY DEF MTypeOK
  <1>1. ASSUME NEW r, task' = Append(task, r) PROVE DOMAIN task \subseteq DOMAIN task'
    BY <1>0, <1>1
  <1>2. ASSUME NEW i \in DOMAIN task, NEW s, task' = [task EXCEPT ![i].status = s]
        PROVE  DOMAIN task \subseteq DOMAIN task'
    BY <1>0, <1>2
  <1>3. CASE EventStep
    <2>1. task' = task \/ \E e \in Events : \E code : Suggest(e, code)
      BY <1>3 DEF EventStep, CreateEvent, RefuseEvent, Process, MarkParsed, StartFails, Ask, CreateReport,
         SuggestedTask, Complete, WorkFails, Review, ReviewFails, Kill
    <2> QED BY <1>1, <2>1 DEF Suggest, Insert
  <1>4. CASE TaskStep
    <2>1. \/ CreateTask
          \/ \E i \in DOMAIN task : \E s : task' = [task EXCEPT ![i].status = s]
      BY <1>4 DEF TaskStep, RemoveTask, UpdateTask
    <2> QED BY <1>1, <1>2, <2>1 DEF CreateTask, Insert
  <1> QED BY <1>3, <1>4 DEF MNext, mvars

LEMMA RowsType ==
  ASSUME MTypeOK, NEW by
  PROVE  /\ Rows(by) \subseteq (DOMAIN task) \X TaskStatus
         /\ (DOMAIN task) \X TaskStatus \subseteq Nat \X TaskStatus
  <1>1. ASSUME NEW i \in DOMAIN task, Row(i) PROVE task[i].status \in TaskStatus
    BY <1>1, WorkRowType DEF Row, TaskRow
  <1>2. DOMAIN task \subseteq Nat
    BY DEF MTypeOK
  <1> QED BY <1>1, <1>2 DEF Rows

(* How the ops change: one begins, one ends, one asks for the list *)

LEMMA OpBegins ==
  ASSUME op \in [Ops -> OpRecord], NEW o \in Ops, NEW STATE r, r \in OpRecord, Begin(o, r)
  PROVE  /\ op' \in [Ops -> OpRecord] /\ op'[o] = r /\ op[o].pc = "unused"
         /\ \A p \in Ops \ {o} :
               /\ op'[p].pc = op[p].pc /\ op'[p].by = op[p].by /\ op'[p].task = op[p].task
               /\ op'[p].to = op[p].to /\ op'[p].rows = op[p].rows /\ ~op'[p].alone
  <1>1. \A p \in Ops : op[p] \in OpRecord
    OBVIOUS
  <1> QED BY <1>1 DEF Begin, OpRecord

LEMMA NewOpType ==
  ASSUME NEW pc \in OpPc, NEW by \in Filters, NEW alone \in BOOLEAN
  PROVE  /\ NewOp(pc, by, alone) \in OpRecord
         /\ NewOp(pc, by, alone).pc = pc /\ NewOp(pc, by, alone).by = by
         /\ NewOp(pc, by, alone).alone = alone /\ NewOp(pc, by, alone).rows = {}
  BY DEF NewOp, OpRecord, NoTask, TaskStatus

LEMMA OpEnds ==
  ASSUME op \in [Ops -> OpRecord], NEW o \in Ops, End(o)
  PROVE  /\ op' \in [Ops -> OpRecord] /\ op'[o].pc = "ended" /\ ~op'[o].alone /\ op'[o].rows = {}
         /\ \A p \in Ops \ {o} : op'[p] = op[p]
  <1>1. /\ NewOp("ended", "PENDING", FALSE) \in OpRecord
        /\ NewOp("ended", "PENDING", FALSE).pc = "ended"
        /\ ~NewOp("ended", "PENDING", FALSE).alone /\ NewOp("ended", "PENDING", FALSE).rows = {}
    BY NewOpType DEF OpPc, Filters
  <1> QED BY <1>1 DEF End

LEMMA OpLoads ==
  ASSUME op \in [Ops -> OpRecord], NEW o \in Ops, Load(o)
  PROVE  /\ op' \in [Ops -> OpRecord] /\ op'[o].pc = "load" /\ op'[o].by = op[o].by
         /\ op'[o].alone = op[o].alone /\ op'[o].rows = op[o].rows
         /\ \A p \in Ops \ {o} : op'[p] = op[p]
         /\ loading'
  BY DEF Load, OpRecord, OpPc

(***************************************************************************)
(* InboxShowsFilter.  An op that has had the inbox to itself is the only   *)
(* one open, and was begun under the filter that is highlighted; the rows  *)
(* it was answered agree with the table as far as nobody has touched it    *)
(* since.  What is shown agrees, too, once such an op has shown it, until  *)
(* the next load begins.                                                   *)
(***************************************************************************)
Agrees(rows) ==
    \A i \in DOMAIN task \ unheard : \A s \in TaskStatus : <<i, s>> \in rows <=> <<i, s>> \in Rows(filter)

InboxTypes == TypeOK /\ \A o \in Ops : op[o].rows \subseteq (DOMAIN task) \X TaskStatus

AloneThen == \A o \in Ops : op[o].alone =>
    /\ op[o].pc \in OpOpen /\ op[o].by = filter
    /\ \A p \in Ops \ {o} : op[p].pc \notin OpOpen

Spins == loading => \E o \in Ops : op[o].pc \in {"projects", "load", "answered"}

OpensFirst ==
    /\ clean => opened
    /\ \A o \in Ops : op[o].pc \in {"update", "create", "changed", "load", "answered"} => opened

AnswerTrue ==
    /\ clean => \A o \in Ops : op[o].pc # "answered"
    /\ \A o \in Ops : op[o].pc = "answered" /\ op[o].alone => Agrees(op[o].rows)

ListTrue == clean => Agrees(shown) \/ \E o \in Ops : op[o].pc = "load"

InboxInv == InboxTypes /\ AloneThen /\ Spins /\ OpensFirst /\ AnswerTrue /\ ListTrue

LEMMA InitInbox == Init => InboxInv
  <1> SUFFICES ASSUME Init PROVE InboxInv
    OBVIOUS
  <1>1. MTypeOK /\ task = <<>>
    BY InitMType DEF Init, MInit
  <1>2. 1 \in Ops /\ 0 \in 0..MaxForeign
    BY TaskInboxAssumption DEF Ops
  <1>3. \A o \in Ops : /\ op[o] = NewOp(IF o = 1 THEN "projects" ELSE "unused", "PENDING", o = 1)
                       /\ op[o] \in OpRecord /\ op[o].by = "PENDING" /\ op[o].rows = {}
                       /\ op[o].pc = IF o = 1 THEN "projects" ELSE "unused"
                       /\ op[o].alone = (o = 1)
    <2>1. NewOp("projects", "PENDING", TRUE) \in OpRecord
      BY NewOpType DEF OpPc, Filters
    <2>2. NewOp("unused", "PENDING", FALSE) \in OpRecord
      BY NewOpType DEF OpPc, Filters
    <2> QED BY <2>1, <2>2 DEF Init, NewOp
  <1>4. op \in [Ops -> OpRecord]
    BY <1>3 DEF Init
  <1>5. InboxTypes
    BY <1>1, <1>2, <1>3, <1>4 DEF Init, InboxTypes, TypeOK, Filters
  <1>6. AloneThen /\ Spins /\ OpensFirst /\ AnswerTrue /\ ListTrue
    <2>1. AloneThen
      <3> SUFFICES ASSUME NEW o \in Ops, op[o].alone
                   PROVE  /\ op[o].pc \in OpOpen /\ op[o].by = filter
                          /\ \A p \in Ops \ {o} : op[p].pc \notin OpOpen
        BY DEF AloneThen
      <3>1. o = 1
        BY <1>3
      <3>2. \A p \in Ops \ {o} : op[p].pc = "unused"
        BY <1>3, <3>1
      <3> QED BY <1>3, <3>1, <3>2 DEF Init, OpOpen
    <2>2. Spins
      BY <1>2, <1>3 DEF Spins
    <2>3. OpensFirst /\ AnswerTrue /\ ListTrue
      BY <1>3 DEF Init, OpensFirst, AnswerTrue, ListTrue
    <2> QED BY <2>1, <2>2, <2>3
  <1> QED BY <1>5, <1>6 DEF InboxInv

\* What others do touches what it changes: where it counts, the rows that agreed still do.
LEMMA TouchedAgrees ==
  ASSUME NEW rows, rows \subseteq (DOMAIN task) \X TaskStatus, Agrees(rows), DOMAIN task \subseteq DOMAIN task',
         unheard' = unheard \cup Touched, filter' = filter, unheard \subseteq DOMAIN task
  PROVE  \A i \in DOMAIN task' \ unheard' : \A s \in TaskStatus :
            <<i, s>> \in rows <=> <<i, s>> \in Rows(filter)'
  <1>1. ASSUME NEW i \in DOMAIN task' \ unheard'
        PROVE  i \in DOMAIN task \ unheard /\ task'[i] = task[i]
    BY DEF Touched
  <1>2. ASSUME NEW i \in DOMAIN task, i \in DOMAIN task', task'[i] = task[i], NEW s
        PROVE  <<i, s>> \in Rows(filter)' <=> <<i, s>> \in Rows(filter)
    BY <1>2 DEF Rows, Row
  <1> QED BY <1>1, <1>2 DEF Agrees

\* An op whose change the server has made keeps all it held.
OpKeeps(p) ==
    /\ op'[p].rows = op[p].rows /\ op'[p].by = op[p].by /\ op'[p].alone = op[p].alone
    /\ op'[p].pc # op[p].pc => op[p].pc \in {"update", "create"} /\ op'[p].pc = "changed"

LEMMA TasksTouched ==
  ASSUME InboxInv, MTypeOK', DOMAIN task \subseteq DOMAIN task', Touch, touches' \in 0..MaxForeign,
         UNCHANGED <<filter, opened, loading, shown, clean>>,
         op' \in [Ops -> OpRecord], \A p \in Ops : OpKeeps(p)
  PROVE  InboxInv'
  <1>0. UNCHANGED <<filter, opened, loading, shown, clean>> /\ op' \in [Ops -> OpRecord]
    OBVIOUS
  <1>1. /\ unheard' = IF Counts THEN unheard \cup Touched ELSE unheard
        /\ Touched \subseteq DOMAIN task'
    BY DEF Touch, Touched
  <1>2. InboxTypes'
    <2>1. \A p \in Ops : op'[p].rows \subseteq (DOMAIN task') \X TaskStatus
      BY DEF OpKeeps, InboxInv, InboxTypes
    <2> QED BY <1>0, <1>1, <2>1 DEF InboxInv, InboxTypes, TypeOK
  <1>3. (AloneThen /\ Spins /\ OpensFirst)'
    <2>1. \A p \in Ops : op'[p].pc \in OpOpen <=> op[p].pc \in OpOpen
      BY DEF OpKeeps, OpOpen
    <2>2. AloneThen'
      BY <1>0, <2>1 DEF OpKeeps, InboxInv, AloneThen
    <2>3. Spins'
      BY <1>0 DEF OpKeeps, InboxInv, Spins
    <2>4. OpensFirst'
      BY <1>0 DEF OpKeeps, InboxInv, OpensFirst
    <2> QED BY <2>2, <2>3, <2>4
  <1>4. ASSUME NEW o \in Ops, op[o].pc = "answered", op[o].alone PROVE Agrees(op[o].rows)'
    <2>1. Counts /\ Agrees(op[o].rows)
      BY <1>4 DEF Counts, InboxInv, AnswerTrue
    <2>2. \A i \in DOMAIN task' \ unheard' : \A s \in TaskStatus :
            <<i, s>> \in op[o].rows <=> <<i, s>> \in Rows(filter)'
      BY <1>0, <1>1, <2>1, TouchedAgrees DEF InboxInv, InboxTypes, TypeOK
    <2>3. op'[o].rows = op[o].rows
      BY DEF OpKeeps
    <2> QED BY <1>0, <2>2, <2>3 DEF Agrees
  <1>5. ASSUME clean, Agrees(shown) PROVE Agrees(shown)'
    <2>1. \A i \in DOMAIN task' \ unheard' : \A s \in TaskStatus :
            <<i, s>> \in shown <=> <<i, s>> \in Rows(filter)'
      BY <1>0, <1>1, <1>5, TouchedAgrees DEF Counts, InboxInv, InboxTypes, TypeOK
    <2> QED BY <1>0, <2>1 DEF Agrees
  <1>6. AnswerTrue'
    <2>1. \A o \in Ops : op'[o].pc = "answered" => op[o].pc = "answered" /\ op'[o].alone = op[o].alone
      BY DEF OpKeeps
    <2> QED BY <1>0, <1>4, <2>1 DEF InboxInv, AnswerTrue
  <1>7. ListTrue'
    <2>1. \A o \in Ops : op[o].pc = "load" => op'[o].pc = "load"
      BY DEF OpKeeps
    <2> QED BY <1>0, <1>5, <2>1 DEF InboxInv, ListTrue
  <1> QED BY <1>2, <1>3, <1>6, <1>7 DEF InboxInv

LEMMA OthersInbox ==
  ASSUME InboxInv, MTypeOK', DOMAIN task \subseteq DOMAIN task', Unheard, touches' \in 0..MaxForeign
  PROVE  InboxInv'
  <1>1. Touch /\ UNCHANGED <<filter, opened, loading, shown, op, clean>>
    BY DEF Unheard
  <1>2. op' \in [Ops -> OpRecord] /\ \A p \in Ops : OpKeeps(p)
    BY <1>1 DEF InboxInv, InboxTypes, TypeOK, OpKeeps
  <1> QED BY <1>1, <1>2, TasksTouched

\* The server has made the change an op asked for.
LEMMA ServerChanged ==
  ASSUME InboxInv, MTypeOK', DOMAIN task \subseteq DOMAIN task', UNCHANGED touches,
         NEW o \in Ops, Updated(o) \/ Inserted(o)
  PROVE  InboxInv'
  <1>1. /\ op[o].pc \in {"update", "create"} /\ op' = [op EXCEPT ![o].pc = "changed"] /\ Touch
        /\ UNCHANGED <<filter, opened, loading, shown, clean>>
    BY DEF Updated, Inserted
  <1>2. op \in [Ops -> OpRecord] /\ touches' \in 0..MaxForeign
    BY DEF InboxInv, InboxTypes, TypeOK
  <1>3. op' \in [Ops -> OpRecord]
    BY <1>1, <1>2 DEF OpRecord, OpPc
  <1>4. \A p \in Ops : OpKeeps(p)
    BY <1>1, <1>2 DEF OpKeeps, OpRecord
  <1> QED BY <1>1, <1>2, <1>3, <1>4, TasksTouched

LEMMA RowsSame ==
  ASSUME UNCHANGED <<task, filter, unheard>>
  PROVE  Rows(filter)' = Rows(filter) /\ DOMAIN task' = DOMAIN task /\ unheard' = unheard
  BY DEF Rows, Row

\* An op begins that keeps the filter.
LEMMA InboxBegun ==
  ASSUME InboxInv, NEW o \in Ops, NEW pc \in {"update", "create"}, NEW STATE r, r \in OpRecord,
         r.pc = pc, r.by = filter, r.alone = Rest, r.rows = {}, opened,
         Begin(o, r), UNCHANGED <<mvars, view, touches>>
  PROVE  InboxInv'
  <1>0. InboxTypes /\ op \in [Ops -> OpRecord]
    BY DEF InboxInv, InboxTypes, TypeOK
  <1>1. /\ op' \in [Ops -> OpRecord] /\ op'[o] = r /\ op[o].pc = "unused"
        /\ \A p \in Ops \ {o} : /\ op'[p].pc = op[p].pc /\ op'[p].by = op[p].by
                                /\ op'[p].rows = op[p].rows /\ ~op'[p].alone
    BY <1>0, OpBegins
  <1>2. InboxTypes'
    BY <1>0, <1>1 DEF InboxTypes, TypeOK, view, mvars, MTypeOK
  <1>3. AloneThen'
    BY <1>1 DEF AloneThen, Rest, OpOpen, view
  <1>4. Spins' /\ OpensFirst'
    BY <1>1 DEF InboxInv, Spins, OpensFirst, view
  <1>5. AnswerTrue'
    BY <1>1 DEF InboxInv, AnswerTrue, view
  <1>6. ListTrue'
    <2>1. Agrees(shown) => Agrees(shown)'
      BY RowsSame DEF Agrees, view, mvars
    <2>2. \A p \in Ops : op[p].pc = "load" => op'[p].pc = "load"
      BY <1>1
    <2> QED BY <2>1, <2>2 DEF InboxInv, ListTrue, view
  <1> QED BY <1>2, <1>3, <1>4, <1>5, <1>6 DEF InboxInv

\* Another filter is chosen.  While the project is not known nothing is loaded, and nothing
\* has been shown.
LEMMA FilterChosen ==
  ASSUME InboxInv, NEW o \in Ops, NEW f \in Filters, ChooseFilter(o, f), UNCHANGED touches
  PROVE  InboxInv'
  <1>0. /\ InboxTypes /\ op \in [Ops -> OpRecord]
        /\ filter' = f /\ UNCHANGED <<mvars, opened, shown, unheard, clean>>
    BY DEF InboxInv, InboxTypes, TypeOK, ChooseFilter
  <1>1. CASE opened
    <2>1. Begin(o, NewOp("load", f, Rest)) /\ loading' = TRUE
      BY <1>1 DEF ChooseFilter
    <2> DEFINE r == NewOp("load", f, Rest)
    <2>2. r \in OpRecord /\ r.pc = "load" /\ r.by = f /\ r.alone = Rest /\ r.rows = {}
      <3>1. Rest \in BOOLEAN
        BY DEF Rest
      <3> QED BY <3>1, NewOpType DEF OpPc
    <2> HIDE DEF r
    <2>3. /\ op' \in [Ops -> OpRecord] /\ op'[o] = r /\ op[o].pc = "unused"
          /\ \A p \in Ops \ {o} : /\ op'[p].pc = op[p].pc /\ op'[p].by = op[p].by
                                  /\ op'[p].rows = op[p].rows /\ ~op'[p].alone
      <3>1. Begin(o, r)
        BY <2>1 DEF r
      <3> QED BY <1>0, <2>2, <3>1, OpBegins
    <2>4. InboxTypes'
      BY <1>0, <2>1, <2>2, <2>3 DEF InboxTypes, TypeOK, mvars, MTypeOK
    <2>5. AloneThen'
      BY <1>0, <2>2, <2>3 DEF AloneThen, Rest, OpOpen
    <2>6. Spins' /\ OpensFirst'
      BY <1>0, <1>1, <2>2, <2>3 DEF InboxInv, Spins, OpensFirst
    <2>7. AnswerTrue'
      BY <1>0, <2>2, <2>3 DEF InboxInv, AnswerTrue
    <2>8. ListTrue'
      BY <2>2, <2>3 DEF ListTrue
    <2> QED BY <2>4, <2>5, <2>6, <2>7, <2>8 DEF InboxInv
  <1>2. CASE ~opened
    <2>1. op' = [p \in Ops |-> [op[p] EXCEPT !.alone = FALSE]] /\ UNCHANGED loading
      BY <1>2 DEF ChooseFilter
    <2>2. /\ op' \in [Ops -> OpRecord]
          /\ \A p \in Ops : /\ op'[p].pc = op[p].pc /\ op'[p].rows = op[p].rows /\ ~op'[p].alone
      BY <1>0, <2>1 DEF OpRecord
    <2>3. InboxTypes'
      BY <1>0, <2>1, <2>2 DEF InboxTypes, TypeOK, mvars, MTypeOK
    <2>4. AloneThen' /\ Spins' /\ OpensFirst'
      BY <1>0, <2>1, <2>2 DEF InboxInv, AloneThen, Spins, OpensFirst
    <2>5. AnswerTrue' /\ ListTrue'
      BY <1>0, <1>2, <2>2 DEF InboxInv, OpensFirst, AnswerTrue, ListTrue
    <2> QED BY <2>3, <2>4, <2>5 DEF InboxInv
  <1> QED BY <1>1, <1>2

\* The project is known or a change is answered: the list is asked for.
LEMMA ListAsked ==
  ASSUME InboxInv, NEW o \in Ops, op[o].pc \in {"projects", "changed"}, Load(o),
         DOMAIN task \subseteq DOMAIN task', MTypeOK', opened',
         UNCHANGED <<filter, shown, unheard, clean, touches>>
  PROVE  InboxInv'
  <1>0. InboxTypes /\ op \in [Ops -> OpRecord]
    BY DEF InboxInv, InboxTypes, TypeOK
  <1>1. /\ op' \in [Ops -> OpRecord] /\ op'[o].pc = "load" /\ op'[o].by = op[o].by
        /\ op'[o].alone = op[o].alone /\ op'[o].rows = op[o].rows
        /\ \A p \in Ops \ {o} : op'[p] = op[p]
        /\ loading'
    BY <1>0, OpLoads
  <1>2. loading' \in BOOLEAN /\ opened' \in BOOLEAN
    <2>1. loading' = TRUE
      BY DEF Load
    <2>2. opened' \in BOOLEAN
      OBVIOUS
    <2> QED BY <2>1, <2>2
  <1>3. \A p \in Ops : op'[p].rows = op[p].rows
    BY <1>1
  <1>4. InboxTypes'
    BY <1>0, <1>1, <1>2, <1>3 DEF InboxTypes, TypeOK
  <1>5. AloneThen'
    <2>1. \A p \in Ops : /\ op'[p].alone = op[p].alone /\ op'[p].by = op[p].by
                         /\ op'[p].pc \in OpOpen <=> op[p].pc \in OpOpen
      BY <1>1 DEF OpOpen
    <2> QED BY <2>1 DEF InboxInv, AloneThen
  <1>6. Spins' /\ OpensFirst'
    BY <1>1 DEF InboxInv, Spins, OpensFirst
  <1>7. AnswerTrue'
    <2>1. clean' => \A p \in Ops : op'[p].pc # "answered"
      BY <1>1 DEF InboxInv, AnswerTrue
    <2>2. \A p \in Ops : op'[p].pc = "answered" => ~op'[p].alone
      <3> SUFFICES ASSUME NEW p \in Ops, op'[p].pc = "answered", op'[p].alone PROVE FALSE
        OBVIOUS
      <3>1. p # o /\ op[p].alone
        BY <1>1
      <3> QED BY <3>1 DEF InboxInv, AloneThen, OpOpen
    <2> QED BY <2>1, <2>2 DEF AnswerTrue
  <1>8. ListTrue'
    BY <1>1 DEF ListTrue
  <1> QED BY <1>4, <1>5, <1>6, <1>7, <1>8 DEF InboxInv

\* An op ends before the list was asked for or answered.
LEMMA OpFailed ==
  ASSUME InboxInv, NEW o \in Ops, op[o].pc \in OpOpen, End(o),
         UNCHANGED <<mvars, filter, opened, shown, unheard, touches>>,
         ~loading' \/ (loading' = loading /\ op[o].pc \in {"update", "create", "changed"}),
         loading' \in BOOLEAN,
         \/ clean' = FALSE
         \/ clean' = clean /\ op[o].pc \in {"projects", "update", "create", "changed"}
  PROVE  InboxInv'
  <1>0. InboxTypes /\ op \in [Ops -> OpRecord] /\ clean \in BOOLEAN
    BY DEF InboxInv, InboxTypes, TypeOK
  <1>1. /\ op' \in [Ops -> OpRecord] /\ op'[o].pc = "ended" /\ ~op'[o].alone /\ op'[o].rows = {}
        /\ \A p \in Ops \ {o} : op'[p] = op[p]
    BY <1>0, OpEnds
  <1>2. clean' \in BOOLEAN /\ (clean' => clean)
    <2>1. CASE clean' = FALSE
      BY <2>1
    <2>2. CASE clean' = clean
      BY <1>0, <2>2, Zenon
    <2> QED BY <2>1, <2>2
  <1>3. InboxTypes'
    <2>1. \A p \in Ops : op'[p].rows \subseteq (DOMAIN task) \X TaskStatus
      BY <1>0, <1>1 DEF InboxTypes
    <2> QED BY <1>0, <1>1, <1>2, <2>1 DEF InboxTypes, TypeOK, mvars, MTypeOK
  <1>4. AloneThen'
    BY <1>1 DEF InboxInv, AloneThen, OpOpen
  <1>5. Spins'
    BY <1>1 DEF InboxInv, Spins
  <1>6. OpensFirst'
    BY <1>1, <1>2 DEF InboxInv, OpensFirst
  <1>7. AnswerTrue'
    <2>1. \A p \in Ops : Agrees(op[p].rows) /\ op'[p].rows = op[p].rows => Agrees(op[p].rows)'
      BY RowsSame DEF Agrees, mvars
    <2> QED BY <1>1, <1>2, <2>1 DEF InboxInv, AnswerTrue
  <1>8. ListTrue'
    <2> SUFFICES ASSUME clean', ~(\E p \in Ops : op'[p].pc = "load") PROVE Agrees(shown)'
      BY DEF ListTrue
    <2>1. clean /\ op[o].pc \in {"projects", "update", "create", "changed"}
      BY <1>0, <1>2
    <2>2. \A p \in Ops : op[p].pc # "load"
      BY <1>1, <2>1
    <2>3. Agrees(shown)
      BY <2>1, <2>2 DEF InboxInv, ListTrue
    <2> QED BY <2>3, RowsSame DEF Agrees, mvars
  <1> QED BY <1>3, <1>4, <1>5, <1>6, <1>7, <1>8 DEF InboxInv

LEMMA ListAnswered ==
  ASSUME InboxInv, NEW o \in Ops, Answered(o), UNCHANGED touches
  PROVE  InboxInv'
  <1>0. /\ InboxTypes /\ op \in [Ops -> OpRecord] /\ MTypeOK
        /\ UNCHANGED <<mvars, filter, opened, loading, shown>> /\ unheard' = {} /\ clean' = FALSE
        /\ op[o].pc = "load"
    BY DEF InboxInv, InboxTypes, TypeOK, Answered
  <1>1. /\ Rows(op[o].by) \subseteq (DOMAIN task) \X TaskStatus
        /\ Rows(op[o].by) \subseteq Nat \X TaskStatus
    BY <1>0, RowsType
  <1>2. /\ op' \in [Ops -> OpRecord] /\ op'[o].pc = "answered" /\ op'[o].by = op[o].by
        /\ op'[o].alone = op[o].alone /\ op'[o].rows = Rows(op[o].by)
        /\ \A p \in Ops \ {o} : op'[p] = op[p]
    BY <1>0, <1>1 DEF Answered, OpRecord, OpPc
  <1>3. InboxTypes'
    <2>1. \A p \in Ops : op'[p].rows \subseteq (DOMAIN task) \X TaskStatus
      BY <1>0, <1>1, <1>2 DEF InboxTypes
    <2> QED BY <1>0, <1>2, <2>1 DEF InboxTypes, TypeOK, mvars, MTypeOK
  <1>4. AloneThen'
    <2>1. \A p \in Ops : /\ op'[p].alone = op[p].alone /\ op'[p].by = op[p].by
                         /\ op'[p].pc \in OpOpen <=> op[p].pc \in OpOpen
      BY <1>0, <1>2 DEF OpOpen
    <2> QED BY <1>0, <2>1 DEF InboxInv, AloneThen
  <1>5. Spins' /\ OpensFirst'
    BY <1>0, <1>2 DEF InboxInv, Spins, OpensFirst
  <1>6. AnswerTrue'
    <2> SUFFICES ASSUME NEW p \in Ops, op'[p].pc = "answered", op'[p].alone PROVE Agrees(op[p].rows)'
      BY <1>0 DEF AnswerTrue
    <2>1. p = o /\ op[o].by = filter
      BY <1>0, <1>2 DEF InboxInv, AloneThen, OpOpen
    <2>2. Rows(filter)' = Rows(filter)
      BY <1>0 DEF Rows, Row, mvars
    <2> QED BY <1>0, <1>2, <2>1, <2>2 DEF Agrees
  <1>7. ListTrue'
    BY <1>0 DEF ListTrue
  <1> QED BY <1>3, <1>4, <1>5, <1>6, <1>7 DEF InboxInv

LEMMA ListShown ==
  ASSUME InboxInv, NEW o \in Ops, Loaded(o), UNCHANGED touches
  PROVE  InboxInv'
  <1>0. /\ InboxTypes /\ op \in [Ops -> OpRecord] /\ op[o] \in OpRecord
        /\ UNCHANGED <<mvars, filter, opened>> /\ loading' = FALSE /\ shown' = op[o].rows
        /\ unheard' = (IF op[o].alone THEN unheard ELSE {}) /\ clean' = op[o].alone
        /\ op[o].pc = "answered" /\ End(o)
    BY DEF InboxInv, InboxTypes, TypeOK, Loaded
  <1>1. /\ op' \in [Ops -> OpRecord] /\ op'[o].pc = "ended" /\ ~op'[o].alone /\ op'[o].rows = {}
        /\ \A p \in Ops \ {o} : op'[p] = op[p]
    BY <1>0, OpEnds
  <1>2. InboxTypes'
    <2>1. \A p \in Ops : op'[p].rows \subseteq (DOMAIN task) \X TaskStatus
      BY <1>0, <1>1 DEF InboxTypes
    <2>2. clean' \in BOOLEAN /\ unheard' \subseteq DOMAIN task
      BY <1>0 DEF OpRecord, InboxTypes, TypeOK
    <2>3. shown' \subseteq (DOMAIN task) \X TaskStatus
      BY <1>0 DEF InboxTypes
    <2> QED BY <1>0, <1>1, <2>1, <2>2, <2>3 DEF InboxTypes, TypeOK, mvars, MTypeOK
  <1>3. AloneThen'
    BY <1>0, <1>1 DEF InboxInv, AloneThen, OpOpen
  <1>4. Spins' /\ OpensFirst'
    BY <1>0, <1>1 DEF InboxInv, Spins, OpensFirst
  <1>5. ASSUME op[o].alone
        PROVE  /\ \A p \in Ops : op'[p].pc \notin OpOpen
               /\ Agrees(shown)'
    <2>1. \A p \in Ops : op'[p].pc \notin OpOpen
      BY <1>1, <1>5 DEF InboxInv, AloneThen, OpOpen
    <2>2. Agrees(op[o].rows)
      BY <1>0, <1>5 DEF InboxInv, AnswerTrue
    <2>3. UNCHANGED <<task, filter, unheard>>
      BY <1>0, <1>5 DEF mvars
    <2> QED BY <1>0, <2>1, <2>2, <2>3, RowsSame DEF Agrees
  <1>6. AnswerTrue'
    <2>1. ASSUME NEW p \in Ops, op'[p].pc = "answered", op'[p].alone PROVE FALSE
      <3>1. p # o /\ op[p].alone
        BY <1>1, <2>1
      <3> QED BY <1>0, <3>1 DEF InboxInv, AloneThen, OpOpen
    <2> QED BY <1>0, <1>5, <2>1 DEF AnswerTrue, OpOpen
  <1>7. ListTrue'
    BY <1>0, <1>5 DEF ListTrue
  <1> QED BY <1>2, <1>3, <1>4, <1>6, <1>7 DEF InboxInv

LEMMA InboxStep == InboxInv /\ MTypeOK' /\ [Next]_vars => InboxInv'
  <1> SUFFICES ASSUME InboxInv, MTypeOK', [Next]_vars PROVE InboxInv'
    OBVIOUS
  <1>0. TypeOK /\ DOMAIN task \subseteq DOMAIN task' /\ touches \in 0..MaxForeign /\ filter \in Filters
        /\ op \in [Ops -> OpRecord] /\ Rest \in BOOLEAN
    BY InboxMaintains, RowsStay DEF InboxInv, InboxTypes, TypeOK, Rest
  <1>1. CASE UNCHANGED vars
    BY <1>1 DEF vars, view, mvars, InboxInv, InboxTypes, TypeOK, MTypeOK, AloneThen, Spins, OpensFirst,
       AnswerTrue, ListTrue, Agrees, Rows, Row
  <1>2. CASE Others
    <2>1. Unheard /\ touches' \in 0..MaxForeign
      BY <1>0, <1>2, TaskInboxAssumption DEF Others
    <2> QED BY <1>0, <2>1, OthersInbox
  <1>3. ASSUME NEW o \in Ops, Inbox(o), UNCHANGED touches PROVE InboxInv'
    <2>1. ASSUME NEW f \in Filters, ChooseFilter(o, f) PROVE InboxInv'
      BY <1>3, <2>1, FilterChosen
    <2>2. ASSUME NEW i \in DOMAIN task, NEW s \in {"COMPLETED", "REJECTED"}, HandleStatusChange(o, i, s)
          PROVE  InboxInv'
      <3> DEFINE r == [NewOp("update", filter, Rest) EXCEPT !.task = i, !.to = s]
      <3>1. i \in Nat
        BY <1>0 DEF TypeOK, MTypeOK
      <3>2. /\ r \in OpRecord /\ r.pc = "update" /\ r.by = filter /\ r.alone = Rest /\ r.rows = {}
        <4> DEFINE n == NewOp("update", filter, Rest)
        <4>1. n \in OpRecord /\ n.pc = "update" /\ n.by = filter /\ n.alone = Rest /\ n.rows = {}
          BY <1>0, NewOpType DEF OpPc
        <4> HIDE DEF n
        <4>2. s \in TaskStatus
          BY DEF TaskStatus
        <4> QED BY <3>1, <4>1, <4>2 DEF OpRecord, n
      <3>3. Begin(o, r) /\ opened /\ UNCHANGED <<mvars, view>>
        BY <2>2 DEF HandleStatusChange
      <3> HIDE DEF r
      <3> QED BY <1>3, <3>2, <3>3, InboxBegun
    <2>3. CASE HandleCreateTask(o)
      <3> DEFINE r == NewOp("create", filter, Rest)
      <3>1. /\ r \in OpRecord /\ r.pc = "create" /\ r.by = filter /\ r.alone = Rest /\ r.rows = {}
        BY <1>0, NewOpType DEF OpPc
      <3>2. Begin(o, r) /\ opened /\ UNCHANGED <<mvars, view>>
        BY <2>3 DEF HandleCreateTask
      <3> HIDE DEF r
      <3> QED BY <1>3, <3>1, <3>2, InboxBegun
    <2>4. CASE ProjectsKnown(o) \/ Changed(o)
      <3>1. /\ op[o].pc \in {"projects", "changed"} /\ Load(o)
            /\ UNCHANGED <<filter, shown, unheard, clean>>
        BY <2>4 DEF ProjectsKnown, Changed
      <3>2. opened'
        BY <2>4 DEF ProjectsKnown, Changed, InboxInv, OpensFirst
      <3> QED BY <1>0, <1>3, <3>1, <3>2, ListAsked
    <2>5. CASE ProjectsFail(o)
      BY <1>3, <2>5, OpFailed DEF ProjectsFail, OpOpen
    <2>6. CASE LoadFails(o)
      BY <1>3, <2>6, OpFailed DEF LoadFails, OpOpen
    <2>7. CASE ChangeFails(o)
      <3>1. /\ op[o].pc \in {"update", "create", "changed"} /\ End(o)
            /\ UNCHANGED <<mvars, filter, opened, loading, shown, unheard, clean>>
        BY <2>7 DEF ChangeFails
      <3>2. loading' \in BOOLEAN /\ op[o].pc \in OpOpen
        BY <1>0, <3>1 DEF TypeOK, OpOpen
      <3> QED BY <1>3, <3>1, <3>2, OpFailed
    <2>8. CASE Answered(o)
      BY <1>3, <2>8, ListAnswered
    <2>9. CASE Loaded(o)
      BY <1>3, <2>9, ListShown
    <2>10. CASE Updated(o) \/ Inserted(o)
      BY <1>0, <1>3, <2>10, ServerChanged
    <2> QED BY <1>3, <2>1, <2>2, <2>3, <2>4, <2>5, <2>6, <2>7, <2>8, <2>9, <2>10 DEF Inbox
  <1> QED BY <1>1, <1>2, <1>3 DEF Next

LEMMA InboxReachable == Init /\ [][Next]_vars => [](WorkInv /\ InboxInv)
  <1>1. Init => WorkInv /\ InboxInv
    BY InitWork, InitInbox DEF Init
  <1>2. WorkInv /\ InboxInv /\ [Next]_vars => (WorkInv /\ InboxInv)'
    BY InboxMaintains, WorkStep, InboxStep DEF InboxInv, InboxTypes, WorkInv
  <1> QED BY <1>1, <1>2, PTL

\* Every reachable state of the inbox, beside the tasks it shows, is well typed.
THEOREM InboxTyped == Spec => []TypeOK
  <1>1. InboxInv => TypeOK
    BY DEF InboxInv, InboxTypes
  <1> QED BY <1>1, InboxReachable, PTL DEF Spec

LEMMA InboxIsTrue == InboxInv => InboxShowsFilter
  BY DEF InboxInv, Spins, ListTrue, Agrees, Rest, OpOpen, InboxShowsFilter

\* However many things are done at the inbox at once and whatever fails or is lost on the way: at
\* rest it does not spin, and where the load it shows was alone, its list is what the highlighted
\* filter names, of all tasks nobody has touched since, changes from here whose answer was lost
\* included (loadTasks, handleStatusChange and handleCreateTask of TaskInbox.tsx).
THEOREM InboxShows == Spec => []InboxShowsFilter
  <1> QED BY InboxIsTrue, InboxReachable, PTL DEF Spec

(***************************************************************************)
(* TabsSound.  A deletion keeps the tabs as they were when the user asked  *)
(* for it; no document was in two of them then, and closing one makes      *)
(* another of them the active one.                                         *)
(***************************************************************************)
Tabs(seq) ==
    /\ \E S : seq \in Seq(S)
    /\ \A m, n \in DOMAIN seq : seq[m] = seq[n] => m = n

TabsInv == Tabs(open) /\ Tabs(deletion.open) /\ (active # 0 => active \in D!ToSet(open))

\* What is left of tabs without d, up to the n-th.
LeftBy(tabs, d, left, n) ==
    IF n = 0 THEN <<>> ELSE IF tabs[n] = d THEN left[n - 1] ELSE Append(left[n - 1], tabs[n])

LEMMA LeastNumber ==
  ASSUME NEW S \in SUBSET Nat, S # {}
  PROVE  \E n \in S : \A m \in S : ~(m < n)
  <1>1. \E n \in S : \A m \in S : ~(<<m, n>> \in OpToRel(<, Nat))
    BY NatLessThanWellFounded, WFMin, Zenon
  <1> QED BY <1>1 DEF OpToRel

LEMMA WithoutIs ==
  ASSUME NEW tabs, Len(tabs) \in Nat, NEW d
  PROVE  \E left : /\ D!Without(tabs, d) = left[Len(tabs)]
                   /\ \A n \in 0..Len(tabs) : left[n] = LeftBy(tabs, d, left, n)
  <1> DEFINE l == Len(tabs)
             Upto(left, m) == \A n \in 0..m : left[n] = LeftBy(tabs, d, left, n)
             Fine(m) == \E left : Upto(left, m)
             Bad == {m \in 0..l : ~Fine(m)}
             Body(left) == [n \in 0..l |-> LeftBy(tabs, d, left, n)]
  <1>1. Fine(l)
    <2> SUFFICES ASSUME ~Fine(l) PROVE FALSE
      OBVIOUS
    <2>1. \E m \in 0..l : ~Fine(m) /\ \A k \in 0..l : k < m => Fine(k)
      <3> HIDE DEF Fine
      <3>1. Bad \in SUBSET Nat /\ Bad # {}
        OBVIOUS
      <3>2. \E m \in Bad : \A k \in Bad : ~(k < m)
        BY <3>1, LeastNumber
      <3> QED BY <3>2
    <2> PICK m \in 0..l : ~Fine(m) /\ \A k \in 0..l : k < m => Fine(k)
      BY <2>1
    <2>2. m # 0
      <3> DEFINE none == [n \in {0} |-> <<>>]
      <3>1. none[0] = LeftBy(tabs, d, none, 0)
        BY DEF LeftBy
      <3>2. Upto(none, 0)
        BY <3>1
      <3> HIDE DEF none
      <3> QED BY <3>2
    <2>3. m \in Nat /\ m - 1 \in 0..l /\ Fine(m - 1)
      <3> HIDE DEF Fine
      <3> QED BY <2>2
    <2>4. PICK left : Upto(left, m - 1)
      BY <2>3
    <2> DEFINE more == [n \in 0..m |-> IF n = m THEN LeftBy(tabs, d, left, m) ELSE left[n]]
    <2>5. ASSUME NEW n \in 0..m PROVE more[n] = LeftBy(tabs, d, more, n)
      <3>1. n # 0 => n - 1 \in 0..m /\ more[n - 1] = left[n - 1]
        BY <2>2, <2>3
      <3>2. LeftBy(tabs, d, more, n) = LeftBy(tabs, d, left, n)
        BY <3>1 DEF LeftBy
      <3>3. n # m => n \in 0..(m - 1)
        BY <2>3
      <3> QED BY <2>4, <3>2, <3>3
    <2>6. Upto(more, m)
      BY <2>5
    <2> HIDE DEF more
    <2> QED BY <2>6
  <1>2. PICK good : Upto(good, l)
    BY <1>1
  <1> DEFINE all == [n \in 0..l |-> good[n]]
  <1>3. all = Body(all)
    <2>1. ASSUME NEW n \in 0..l PROVE all[n] = LeftBy(tabs, d, all, n)
      <3>1. n # 0 => n - 1 \in 0..l
        OBVIOUS
      <3>2. LeftBy(tabs, d, all, n) = LeftBy(tabs, d, good, n)
        BY <3>1 DEF LeftBy
      <3> QED BY <1>2, <3>2
    <2> QED BY <2>1
  <1> DEFINE f == CHOOSE left : left = Body(left)
  <1>4. D!Without(tabs, d) = f[l]
    BY Zenon DEF D!Without, LeftBy
  <1> HIDE DEF all
  <1>5. \E left : left = Body(left)
    BY <1>3
  <1>6. f = Body(f)
    BY <1>5
  <1> HIDE DEF f
  <1>7. \A n \in 0..l : f[n] = LeftBy(tabs, d, f, n)
    BY <1>6
  <1> QED BY <1>4, <1>7

LEMMA WithoutTabs ==
  ASSUME NEW tabs, Tabs(tabs), NEW d
  PROVE  /\ Tabs(D!Without(tabs, d))
         /\ D!ToSet(D!Without(tabs, d)) = D!ToSet(tabs) \ {d}
  <1>1. PICK S : tabs \in Seq(S)
    BY DEF Tabs
  <1>2. Len(tabs) \in Nat /\ DOMAIN tabs = 1..Len(tabs)
    BY <1>1
  <1>3. PICK left : /\ D!Without(tabs, d) = left[Len(tabs)]
                    /\ \A n \in 0..Len(tabs) : left[n] = LeftBy(tabs, d, left, n)
    BY <1>2, WithoutIs
  <1> DEFINE Right(n) == /\ left[n] \in Seq(S)
                         /\ D!ToSet(left[n]) = {tabs[i] : i \in 1..n} \ {d}
                         /\ \A i, j \in DOMAIN left[n] : left[n][i] = left[n][j] => i = j
             Bad == {n \in 0..Len(tabs) : ~Right(n)}
  <1>4. Right(Len(tabs))
    <2> SUFFICES ASSUME ~Right(Len(tabs)) PROVE FALSE
      OBVIOUS
    <2>1. \E m \in 0..Len(tabs) : ~Right(m) /\ \A k \in 0..Len(tabs) : k < m => Right(k)
      <3> HIDE DEF Right
      <3>1. Bad \in SUBSET Nat /\ Bad # {}
        BY <1>2
      <3>2. \E m \in Bad : \A k \in Bad : ~(k < m)
        BY <3>1, LeastNumber
      <3> QED BY <3>2
    <2> PICK m \in 0..Len(tabs) : ~Right(m) /\ \A k \in 0..Len(tabs) : k < m => Right(k)
      BY <2>1
    <2>2. CASE m = 0
      <3>1. left[m] = <<>>
        BY <1>2, <1>3, <2>2 DEF LeftBy
      <3>2. Right(m)
        BY <2>2, <3>1 DEF D!ToSet
      <3> QED BY <3>2
    <2>3. CASE m # 0
      <3>1. m \in 1..Len(tabs) /\ m - 1 \in 0..Len(tabs) /\ tabs[m] \in S
        BY <1>1, <1>2, <2>3
      <3>2. Right(m - 1)
        <4> HIDE DEF Right
        <4> QED BY <3>1
      <3>3. left[m] = IF tabs[m] = d THEN left[m - 1] ELSE Append(left[m - 1], tabs[m])
        BY <1>3, <2>3, <3>1 DEF LeftBy
      <3>4. {tabs[i] : i \in 1..m} = {tabs[i] : i \in 1..(m - 1)} \cup {tabs[m]}
        BY <3>1
      <3>5. CASE tabs[m] = d
        BY <3>2, <3>3, <3>4, <3>5
      <3>6. CASE tabs[m] # d
        <4> DEFINE was == left[m - 1]
                   now == Append(was, tabs[m])
        <4>1. /\ was \in Seq(S) /\ now \in Seq(S) /\ Len(now) = Len(was) + 1 /\ Len(was) \in Nat
              /\ DOMAIN now = 1..(Len(was) + 1) /\ DOMAIN was = 1..Len(was)
              /\ \A i \in 1..Len(was) : now[i] = was[i]
              /\ now[Len(was) + 1] = tabs[m]
          BY <3>1, <3>2
        <4>2. D!ToSet(now) = D!ToSet(was) \cup {tabs[m]}
          <5> HIDE DEF now, was
          <5> QED BY <4>1 DEF D!ToSet
        <4>3. tabs[m] \notin D!ToSet(was)
          <5>1. \A i \in 1..(m - 1) : tabs[i] # tabs[m]
            BY <1>2, <3>1 DEF Tabs
          <5> QED BY <3>2, <5>1
        <4>4. \A i \in 1..Len(was) : was[i] # tabs[m]
          BY <4>1, <4>3 DEF D!ToSet
        <4>5. \A i, j \in DOMAIN now : now[i] = now[j] => i = j
          BY <3>2, <4>1, <4>4
        <4>6. left[m] = now
          BY <3>3, <3>6
        <4>7. D!ToSet(now) = {tabs[i] : i \in 1..m} \ {d}
          BY <3>2, <3>4, <3>6, <4>2
        <4> HIDE DEF now, was
        <4>8. Right(m)
          BY <4>1, <4>5, <4>6, <4>7
        <4> QED BY <4>8
      <3> QED BY <3>5, <3>6
    <2> QED BY <2>2, <2>3
  <1>5. D!ToSet(tabs) = {tabs[i] : i \in 1..Len(tabs)}
    BY <1>2 DEF D!ToSet
  <1> QED BY <1>3, <1>4, <1>5 DEF Tabs

LEMMA NoTabs == Tabs(<<>>)
  <1>1. <<>> \in Seq({})
    OBVIOUS
  <1> QED BY <1>1 DEF Tabs

LEMMA OpenedTabs ==
  ASSUME NEW tabs, Tabs(tabs), NEW d
  PROVE  /\ Tabs(D!Opened(d, tabs)) /\ d \in D!ToSet(D!Opened(d, tabs))
         /\ D!ToSet(tabs) \subseteq D!ToSet(D!Opened(d, tabs))
  <1>1. CASE d \in D!ToSet(tabs)
    BY <1>1 DEF D!Opened
  <1>2. CASE d \notin D!ToSet(tabs)
    <2> DEFINE now == Append(tabs, d)
    <2>1. PICK S : tabs \in Seq(S)
      BY DEF Tabs
    <2>2. tabs \in Seq(S \cup {d})
      BY <2>1
    <2>3. /\ now \in Seq(S \cup {d}) /\ Len(tabs) \in Nat
          /\ DOMAIN now = 1..(Len(tabs) + 1) /\ DOMAIN tabs = 1..Len(tabs)
          /\ \A i \in 1..Len(tabs) : now[i] = tabs[i]
          /\ now[Len(tabs) + 1] = d
      BY <2>2
    <2> HIDE DEF now
    <2>4. D!ToSet(now) = D!ToSet(tabs) \cup {d}
      BY <2>3 DEF D!ToSet
    <2>5. \A i \in 1..Len(tabs) : tabs[i] # d
      BY <1>2, <2>3 DEF D!ToSet
    <2>6. \A i, j \in DOMAIN now : now[i] = now[j] => i = j
      BY <2>3, <2>5 DEF Tabs
    <2>7. D!Opened(d, tabs) = now
      BY <1>2 DEF D!Opened, now
    <2> QED BY <2>3, <2>4, <2>6, <2>7 DEF Tabs
  <1> QED BY <1>1, <1>2

\* The effects of a render keep the tabs sound, whatever the list.
LEMMA EffectsTabs ==
  ASSUME NEW shows, NEW tabs, Tabs(tabs), NEW d, d # 0 => d \in D!ToSet(tabs), D!Effects(shows, tabs, d)
  PROVE  Tabs(open') /\ (active' # 0 => active' \in D!ToSet(open'))
  <1>1. \A e : Tabs(D!Opened(e, tabs)) /\ e \in D!ToSet(D!Opened(e, tabs))
    BY OpenedTabs
  <1>2. \/ open' = tabs /\ active' = d
        \/ \E e : open' = D!Opened(e, tabs) /\ active' = e
    BY DEF D!Effects, D!DataSync, D!OpenFirst
  <1> QED BY <1>1, <1>2

LEMMA OpenNodeTabs ==
  ASSUME TabsInv, NEW d, D!OpenNode(d)
  PROVE  Tabs(open') /\ (active' # 0 => active' \in D!ToSet(open'))
  <1>1. Tabs(D!Opened(d, open)) /\ d \in D!ToSet(D!Opened(d, open))
    BY OpenedTabs DEF TabsInv
  <1> QED BY <1>1, EffectsTabs DEF D!OpenNode

LEMMA CloseNodeTabs ==
  ASSUME NEW d, NEW tabs, Tabs(tabs), NEW was, D!CloseNode(d, tabs, was),
         was # d => (active # 0 => active # d /\ active \in D!ToSet(tabs))
  PROVE  Tabs(open') /\ (active' # 0 => active' \in D!ToSet(open'))
  <1> DEFINE rest == D!Without(tabs, d)
             a == IF was # d THEN active ELSE IF rest = <<>> THEN 0 ELSE D!Last(rest)
  <1>1. Tabs(rest) /\ D!ToSet(rest) = D!ToSet(tabs) \ {d}
    BY WithoutTabs
  <1>2. D!Effects(listed, rest, a)
    BY DEF D!CloseNode
  <1> HIDE DEF rest
  <1>3. a # 0 => a \in D!ToSet(rest)
    <2>1. ASSUME rest # <<>> PROVE D!Last(rest) \in D!ToSet(rest)
      <3>1. PICK S : rest \in Seq(S)
        BY <1>1 DEF Tabs
      <3>2. Len(rest) \in DOMAIN rest
        BY <2>1, <3>1
      <3> QED BY <3>2 DEF D!Last, D!ToSet
    <2> QED BY <1>1, <2>1
  <1> HIDE DEF a
  <1> QED BY <1>1, <1>2, <1>3, EffectsTabs

LEMMA TabsStep == TabsInv /\ D!DNext => TabsInv'
  <1> SUFFICES ASSUME TabsInv, D!DNext PROVE TabsInv'
    OBVIOUS
  <1>0. Tabs(open) /\ Tabs(deletion.open) /\ (active # 0 => active \in D!ToSet(open))
    BY DEF TabsInv
  <1>1. ASSUME UNCHANGED <<open, active, deletion>> PROVE TabsInv'
    BY <1>0, <1>1 DEF TabsInv, Tabs, D!ToSet
  <1>2. ASSUME Tabs(open'), active' # 0 => active' \in D!ToSet(open'), UNCHANGED deletion PROVE TabsInv'
    BY <1>0, <1>2 DEF TabsInv, Tabs, D!ToSet
  <1>3. ASSUME NEW d, D!OpenNode(d), UNCHANGED deletion PROVE TabsInv'
    BY <1>2, <1>3, OpenNodeTabs
  <1>4. CASE \E r \in Polls : D!Poll(r)
    BY <1>1, <1>4 DEF D!Poll
  <1>5. ASSUME NEW r, D!FindAll(r) \/ D!LoadFails(r) \/ D!HandleGenerateActiveNode(r)
                        \/ D!HandleModalUpload(r) \/ D!Operated(r)
        PROVE  TabsInv'
    BY <1>1, <1>5 DEF D!FindAll, D!LoadFails, D!HandleGenerateActiveNode, D!HandleModalUpload, D!Send, D!Operated
  <1>6. ASSUME NEW r, D!LoadNodes(r) PROVE TabsInv'
    <2>1. Tabs(open') /\ (active' # 0 => active' \in D!ToSet(open'))
      BY <1>0, <1>6, EffectsTabs DEF D!LoadNodes
    <2> QED BY <1>2, <1>6, <2>1 DEF D!LoadNodes
  <1>7. ASSUME NEW d, D!OpenRow(d) \/ D!OpenApproval(d) \/ D!OpenFile(d) PROVE TabsInv'
    BY <1>3, <1>7 DEF D!OpenRow, D!OpenApproval, D!OpenFile, D!Stay
  <1>8. ASSUME NEW d, D!SelectTab(d) PROVE TabsInv'
    <2>1. Tabs(open') /\ (active' # 0 => active' \in D!ToSet(open'))
      BY <1>0, <1>8, EffectsTabs DEF D!SelectTab
    <2> QED BY <1>2, <1>8, <2>1 DEF D!SelectTab, D!Stay
  <1>9. ASSUME NEW d, D!CloseTab(d) PROVE TabsInv'
    <2>1. Tabs(open') /\ (active' # 0 => active' \in D!ToSet(open'))
      BY <1>0, <1>9, CloseNodeTabs DEF D!CloseTab
    <2> QED BY <1>2, <1>9, <2>1 DEF D!CloseTab, D!Stay
  <1>10. ASSUME NEW d, D!Create(d) \/ D!RemoveElsewhere(d) PROVE TabsInv'
    BY <1>1, <1>10 DEF D!Create, D!RemoveElsewhere
  <1>11. ASSUME NEW step, D!HandleNavigate(step) PROVE TabsInv'
    BY <1>3, <1>11 DEF D!HandleNavigate, D!Stay
  <1>12. CASE D!Delete
    <2>1. deletion'.open = open /\ UNCHANGED <<open, active>>
      BY <1>12 DEF D!Delete
    <2> QED BY <1>0, <2>1 DEF TabsInv, Tabs, D!ToSet
  <1>13. CASE D!Removed
    <2>1. Tabs(open') /\ (active' # 0 => active' \in D!ToSet(open'))
      BY <1>0, <1>13, CloseNodeTabs DEF D!Removed
    <2> QED BY <1>2, <1>13, <2>1 DEF D!Removed
  <1>14. CASE D!RemoveNode \/ D!RemoveFails
    BY <1>1, <1>14 DEF D!RemoveNode, D!RemoveFails
  <1>15. CASE D!Deleted
    <2>1. deletion'.open = <<>> /\ UNCHANGED <<open, active>>
      BY <1>15 DEF D!Deleted, D!NoDeletion
    <2> QED BY <1>0, <2>1, NoTabs DEF TabsInv, Tabs, D!ToSet
  <1> QED BY <1>4, <1>5, <1>6, <1>7, <1>8, <1>9, <1>10, <1>11, <1>12, <1>13, <1>14, <1>15
          DEF D!DNext, D!Answering

LEMMA InitTabs == D!DInit => TabsInv
  BY NoTabs DEF D!DInit, D!NoDeletion, TabsInv

\* On the page of the documents (DocumentsTab.tsx), whatever is opened, closed and deleted, and
\* whenever the list arrives: no document is in two tabs, and the active one is in one.
THEOREM TabsStaySound == PagesSpec => []TabsSound
  <1>1. PagesInit => TabsInv
    BY InitTabs DEF PagesInit
  <1>2. TabsInv /\ [PagesNext]_pages => TabsInv'
    <2> SUFFICES ASSUME TabsInv, [PagesNext]_pages PROVE TabsInv'
      OBVIOUS
    <2>1. D!DNext \/ UNCHANGED docs
      BY DEF PagesNext, OnInbox, OnNone, OnDocuments, OnDocument, OnProject, OnAudits, OnCompliance, pages
    <2>2. UNCHANGED docs => TabsInv'
      BY DEF docs, TabsInv, Tabs, D!ToSet
    <2> QED BY <2>1, <2>2, TabsStep
  <1>3. TabsInv => TabsSound
    BY DEF TabsInv, Tabs, TabsSound, D!TabsSound
  <1> QED BY <1>1, <1>2, <1>3, PTL DEF PagesSpec

(***************************************************************************)
(* SelectionSound.  The audits of the list, of an answer that has not been *)
(* shown and of a creation are audits there are; then what Select chooses  *)
(* from a list is of that list.                                            *)
(***************************************************************************)
Selections == [audit : AuditIds \cup {0}, item : Nat]
Sound(choice, list) ==
    /\ choice.audit = 0 <=> list = <<>>
    /\ choice.audit # 0 =>
         /\ choice.audit \in A!ToSet(list)
         /\ \/ choice.item \in A!ToSet(Checklist[choice.audit])
            \/ choice.item = 0 /\ Checklist[choice.audit] = <<>>

AudTypes ==
    /\ stored \subseteq AuditIds
    /\ audits \in Seq(AuditIds) /\ selection \in Selections /\ fetching \in BOOLEAN
    /\ load \in [pc : {"sent", "answered", "idle"}, list : Seq(AuditIds)]
    /\ creation \in [pc : {"sent", "answered", "idle"}, audit : AuditIds \cup {0}]
    /\ creation.pc # "idle" => creation.audit \in AuditIds

AudInv == AudTypes /\ Sound(selection, audits)

LEMMA FirstIsIn ==
  ASSUME NEW S, NEW seq \in Seq(S), seq # <<>>
  PROVE  Head(seq) \in S /\ Head(seq) \in A!ToSet(seq)
  <1>1. Len(seq) \in Nat /\ Len(seq) >= 1 /\ DOMAIN seq = 1..Len(seq)
    OBVIOUS
  <1>2. Head(seq) = seq[1] /\ 1 \in DOMAIN seq /\ seq[1] \in S
    BY <1>1
  <1> QED BY <1>2 DEF A!ToSet

LEMMA InSequence ==
  ASSUME NEW S, NEW seq \in Seq(S)
  PROVE  A!ToSet(seq) \subseteq S
  BY DEF A!ToSet

LEMMA Selects ==
  ASSUME NEW list \in Seq(AuditIds), NEW was \in Selections
  PROVE  A!Select(list, was) \in Selections /\ Sound(A!Select(list, was), list)
  <1>0. AuditIds \subseteq Nat \ {0} /\ Checklist \in [AuditIds -> Seq(Nat \ {0})]
    BY PagesAssumption DEF A!AuditsAssumption
  <1>1. CASE list = <<>>
    BY <1>1 DEF A!Select, A!NoSelection, Selections, Sound
  <1>2. CASE list # <<>>
    <2> DEFINE a == IF was.audit \in A!ToSet(list) THEN was.audit ELSE Head(list)
               i == IF was.item \in A!ToSet(Checklist[a]) THEN was.item ELSE A!FirstOf(Checklist[a])
    <2>1. a \in A!ToSet(list) /\ a \in AuditIds
      BY <1>2, FirstIsIn, InSequence
    <2>2. A!Select(list, was) = [audit |-> a, item |-> i]
      BY <1>2 DEF A!Select
    <2> HIDE DEF a
    <2>3. Checklist[a] \in Seq(Nat \ {0})
      BY <1>0, <2>1
    <2>4. Checklist[a] # <<>> => A!FirstOf(Checklist[a]) \in A!ToSet(Checklist[a])
      BY <2>3, FirstIsIn DEF A!FirstOf
    <2>5. Checklist[a] = <<>> => A!FirstOf(Checklist[a]) = 0 /\ A!ToSet(Checklist[a]) = {}
      BY DEF A!FirstOf, A!ToSet
    <2>6. A!ToSet(Checklist[a]) \subseteq Nat
      BY <2>3, InSequence
    <2>7. i \in Nat /\ (i \in A!ToSet(Checklist[a]) \/ (i = 0 /\ Checklist[a] = <<>>))
      BY <2>4, <2>5, <2>6
    <2> HIDE DEF i
    <2> QED BY <1>0, <1>2, <2>1, <2>2, <2>7 DEF Selections, Sound
  <1> QED BY <1>1, <1>2

LEMMA AudAnswers ==
  ASSUME AudInv, A!ListAudits
  PROVE  AudInv'
  <1>1. PICK list \in A!SetToSeqs(stored) : load' = [pc |-> "answered", list |-> list]
    BY DEF A!ListAudits
  <1>2. list \in Seq(AuditIds)
    <2>1. IsFiniteSet(stored)
      <3>1. IsFiniteSet(AuditIds)
        BY PagesAssumption DEF A!AuditsAssumption, A!IsFiniteSet, IsFiniteSet
      <3> QED BY <3>1, FS_Subset DEF AudInv, AudTypes
    <2>2. A!Cardinality(stored) = Cardinality(stored)
      BY DEF A!Cardinality, Cardinality
    <2>3. Cardinality(stored) \in Nat
      BY <2>1, FS_CardinalityType
    <2>4. list \in [1..Cardinality(stored) -> stored]
      BY <2>2 DEF A!SetToSeqs
    <2> QED BY <2>3, <2>4 DEF AudInv, AudTypes
  <1> QED BY <1>1, <1>2 DEF A!ListAudits, AudInv, AudTypes

LEMMA NoAudits == [pc |-> "idle", list |-> <<>>] \in [pc : {"sent", "answered", "idle"}, list : Seq(AuditIds)]
  OBVIOUS

LEMMA AudStep == AudInv /\ A!ANext => AudInv'
  <1> SUFFICES ASSUME AudInv, A!ANext PROVE AudInv'
    OBVIOUS
  <1>0. /\ AuditIds \subseteq Nat \ {0} /\ Checklist \in [AuditIds -> Seq(Nat \ {0})] /\ Own \subseteq AuditIds
        /\ AudTypes /\ Sound(selection, audits)
    BY PagesAssumption DEF A!AuditsAssumption, AudInv
  <1>1. CASE A!ListAudits
    BY <1>1, AudAnswers
  <1>2. CASE A!Loaded
    <2>1. load.list \in Seq(AuditIds)
      BY <1>0 DEF AudTypes
    <2>2. selection' \in Selections /\ Sound(selection', audits')
      BY <1>0, <1>2, <2>1, Selects DEF A!Loaded, AudTypes
    <2>3. AudTypes'
      <3>1. /\ audits' = load.list /\ fetching' = FALSE /\ load' = [pc |-> "idle", list |-> <<>>]
            /\ UNCHANGED <<stored, creation>>
        BY <1>2 DEF A!Loaded
      <3> QED BY <1>0, <2>1, <2>2, <3>1, NoAudits DEF AudTypes
    <2> QED BY <2>2, <2>3 DEF AudInv, Sound
  <1>3. CASE A!LoadFails
    <2>1. /\ fetching' = FALSE /\ load' = [pc |-> "idle", list |-> <<>>]
          /\ UNCHANGED <<stored, audits, selection, creation>>
      BY <1>3 DEF A!LoadFails
    <2> QED BY <1>0, <2>1, NoAudits DEF AudInv, AudTypes, Sound
  <1>4. CASE A!Created
    <2> DEFINE list == <<creation.audit>> \o audits
               was == [audit |-> creation.audit, item |-> 0]
    <2>1. list \in Seq(AuditIds) /\ was \in Selections
      BY <1>0, <1>4 DEF A!Created, AudTypes, Selections
    <2>2. audits' = list /\ selection' = A!Select(list, was)
      BY <1>4 DEF A!Created
    <2> HIDE DEF list, was
    <2>3. selection' \in Selections /\ Sound(selection', audits')
      BY <2>1, <2>2, Selects
    <2>4. AudTypes'
      BY <1>0, <1>4, <2>1, <2>2, <2>3 DEF A!Created, AudTypes
    <2> QED BY <2>3, <2>4 DEF AudInv, Sound
  <1>5. CASE A!CreationFails
    BY <1>0, <1>5 DEF A!CreationFails, AudInv, AudTypes, Sound
  <1>6. ASSUME NEW a \in AuditIds, A!HandleSelectAudit(a) PROVE AudInv'
    <2>1. a \in A!ToSet(audits) /\ selection' = [audit |-> a, item |-> A!FirstOf(Checklist[a])]
      BY <1>6 DEF A!HandleSelectAudit, A!AuditPlanner
    <2>2. Checklist[a] \in Seq(Nat \ {0})
      BY <1>0
    <2>3. /\ A!FirstOf(Checklist[a]) \in Nat
          /\ \/ A!FirstOf(Checklist[a]) \in A!ToSet(Checklist[a])
             \/ A!FirstOf(Checklist[a]) = 0 /\ Checklist[a] = <<>>
      BY <2>2, FirstIsIn DEF A!FirstOf
    <2>4. selection' \in Selections /\ Sound(selection', audits)
      BY <1>0, <2>1, <2>3 DEF Selections, Sound, A!ToSet
    <2> QED BY <1>0, <1>6, <2>4 DEF A!HandleSelectAudit, AudInv, AudTypes, Sound
  <1>7. ASSUME NEW a \in AuditIds, A!HandleCreateAudit(a) PROVE AudInv'
    BY <1>0, <1>7 DEF A!HandleCreateAudit, AudInv, AudTypes, Sound
  <1>8. ASSUME NEW a \in AuditIds, A!CreateAudit(a) PROVE AudInv'
    <2>1. creation \in [pc : {"sent", "answered", "idle"}, audit : AuditIds \cup {0}]
      BY <1>0 DEF AudTypes
    <2>2. /\ creation' \in [pc : {"sent", "answered", "idle"}, audit : AuditIds \cup {0}]
          /\ creation'.audit = creation.audit /\ (creation'.pc # "idle" => creation.pc # "idle")
      BY <1>8, <2>1 DEF A!CreateAudit
    <2>3. stored' = stored \cup {a} /\ UNCHANGED <<audits, selection, fetching, load>>
      BY <1>8 DEF A!CreateAudit
    <2> QED BY <1>0, <2>2, <2>3 DEF AudInv, AudTypes, Sound
  <1>9. ASSUME NEW item, A!HandleSelectChecklistItem(item) PROVE AudInv'
    <2>1. selection.audit # 0 /\ item \in A!ToSet(Checklist[selection.audit])
      BY <1>9 DEF A!HandleSelectChecklistItem, A!AuditDetails
    <2>2. selection.audit \in AuditIds /\ A!ToSet(Checklist[selection.audit]) \subseteq Nat
      BY <1>0, <2>1, InSequence DEF AudTypes, Selections
    <2>3. selection' \in Selections /\ Sound(selection', audits)
      BY <1>0, <1>9, <2>1, <2>2 DEF A!HandleSelectChecklistItem, AudTypes, Selections, Sound
    <2> QED BY <1>0, <1>9, <2>3 DEF A!HandleSelectChecklistItem, AudInv, AudTypes, Sound
  <1> QED BY <1>1, <1>2, <1>3, <1>4, <1>5, <1>6, <1>7, <1>8, <1>9 DEF A!ANext

LEMMA InitAud == A!AInit => AudInv
  BY DEF A!AInit, A!NoSelection, AudInv, AudTypes, Selections, Sound

\* On the page of the audits (audits/page.tsx), in whatever order the list and what is created
\* arrive: the audit that is selected is of the list, and the item is of its checklist.
THEOREM SelectionStaysSound == PagesSpec => []SelectionSound
  <1>1. PagesInit => AudInv
    BY InitAud DEF PagesInit
  <1>2. AudInv /\ [PagesNext]_pages => AudInv'
    <2> SUFFICES ASSUME AudInv, [PagesNext]_pages PROVE AudInv'
      OBVIOUS
    <2>1. A!ANext \/ UNCHANGED auds
      BY DEF PagesNext, OnInbox, OnNone, OnDocuments, OnDocument, OnProject, OnAudits, OnCompliance, pages
    <2>2. UNCHANGED auds => AudInv'
      BY DEF auds, AudInv, AudTypes, Sound
    <2> QED BY <2>1, <2>2, AudStep
  <1>3. AudInv => SelectionSound
    BY DEF AudInv, Sound, SelectionSound, A!SelectionSound
  <1> QED BY <1>1, <1>2, <1>3, PTL DEF PagesSpec

(***************************************************************************)
(* WorkspaceTrue.  A load that is under way keeps what it has read to the  *)
(* project it was sent for; while it has the page to itself, what it has   *)
(* read is what the server still has.  A flag that is up is held by a      *)
(* request that will take it down.                                         *)
(***************************************************************************)
Parts      == {"nodes", "requirements", "conflicts"}
OfProjects == Workspaces \cup {C!NoWorkspace}
Seen       == OfProjects \X Nat
Sight      == [project : OfProjects, ruleSet : Nat, ruleSets : Seq(Nat), nodes : Seen,
               requirements : Seen, conflicts : SUBSET (Workspaces \X Nat)]
Asked      == [pc : {"idle", "sent", "answered"}, kind : {"none", "projects", "load", "run", "resolve"},
               project : OfProjects, conflict : Seen, todo : SUBSET Parts, got : Sight,
               ends : {"none", "analyzing"}, alone : BOOLEAN]

CompTypes ==
    /\ offered \in Seq(Workspaces) /\ known \in Seq(Workspaces)
    /\ evaluated \in [Workspaces -> Nat] /\ edition \in [Workspaces -> Nat]
    /\ unresolved \subseteq Workspaces \X Nat
    /\ workspace \in Sight /\ conflict \in Seen
    /\ busy \subseteq {"loading", "analyzing", "submitting"}
    /\ sent \in [Awaited -> Asked]
    /\ assistant \in BOOLEAN /\ settled \in BOOLEAN

\* What is under way is of a project there is.
CompKnown ==
    /\ offered = <<>> => /\ known = <<>> /\ conflict = C!NoConflict /\ workspace.conflicts = {}
                         /\ workspace.project = C!NoWorkspace
                         /\ \A s \in Awaited : sent[s].kind \in {"none", "projects"}
    /\ conflict # C!NoConflict \/ workspace.conflicts # {} => workspace.project \in Workspaces
    /\ \A s \in Awaited : sent[s].kind \in {"load", "run", "resolve"} => sent[s].project \in Workspaces

Fresh(r, p) ==
    /\ "nodes" \notin r.todo => r.got.nodes = C!FetchNodes(p)
    /\ "requirements" \notin r.todo => r.got.requirements = C!LatestRequirements(p)
    /\ "conflicts" \notin r.todo => r.got.conflicts = C!ListConflicts(p)

OfProject(r) ==
    /\ r.got.project = r.project /\ r.got.ruleSets = RuleSetsOf[r.project]
    /\ "nodes" \notin r.todo => r.got.nodes[1] = r.project
    /\ "requirements" \notin r.todo => r.got.requirements[1] = r.project
    /\ \A c \in r.got.conflicts : c[1] = r.project

LoadsTrue == \A s \in Awaited : sent[s].kind = "load" =>
    OfProject(sent[s]) /\ (sent[s].alone => Fresh(sent[s], sent[s].project))

AloneTrue == \A s \in Awaited : sent[s].alone => \A u \in Awaited \ {s} : sent[u] = C!Idle

SightTrue ==
    LET p == workspace.project IN
    p # C!NoWorkspace =>
         /\ workspace.ruleSets = RuleSetsOf[p]
         /\ workspace.nodes[1] = p /\ workspace.requirements[1] = p
         /\ \A c \in workspace.conflicts : c[1] = p
         /\ \/ assistant \/ workspace.ruleSet \in C!ToSet(workspace.ruleSets)
            \/ workspace.ruleSets = <<>> /\ workspace.ruleSet = 0
         /\ settled => /\ workspace.nodes = C!FetchNodes(p)
                       /\ workspace.requirements = C!LatestRequirements(p)
                       /\ workspace.conflicts = C!ListConflicts(p)

FlagsHeld ==
    /\ "loading" \in busy => \E s \in Awaited : sent[s].kind \in {"projects", "load"}
    /\ "analyzing" \in busy => \E s \in Awaited : \/ sent[s].kind = "run"
                                                  \/ sent[s].kind = "load" /\ sent[s].ends = "analyzing"
    /\ "submitting" \in busy => \E s \in Awaited : sent[s].kind = "resolve"

CompInv == CompTypes /\ CompKnown /\ LoadsTrue /\ AloneTrue /\ SightTrue /\ FlagsHeld

LEMMA IdleTyped ==
  /\ C!Idle \in Asked /\ C!Cleared \in Sight
  /\ C!Idle.kind = "none" /\ C!Idle.alone = FALSE /\ C!Idle.todo = {} /\ C!Idle.pc = "idle"
  /\ C!Cleared.project = C!NoWorkspace /\ C!Cleared.conflicts = {} /\ C!Cleared.nodes = C!NoConflict
  BY DEF C!Idle, C!Cleared, C!NoConflict, C!NoWorkspace, Asked, Sight, Seen, OfProjects

\* A request is sent from slot s: the others no longer have the page to themselves.
LEMMA Sends ==
  ASSUME CompTypes, NEW s \in Awaited, NEW r \in Asked, sent' = C!Sending(s, r)
  PROVE  /\ sent' \in [Awaited -> Asked]
         /\ sent'[s] \in Asked /\ sent'[s].pc = r.pc /\ sent'[s].kind = r.kind
         /\ sent'[s].project = r.project /\ sent'[s].conflict = r.conflict /\ sent'[s].todo = r.todo
         /\ sent'[s].got = r.got /\ sent'[s].ends = r.ends
         /\ sent'[s].alone => \A u \in Awaited \ {s} : sent'[u] = C!Idle
         /\ \A u \in Awaited \ {s} :
              /\ sent'[u].pc = sent[u].pc /\ sent'[u].kind = sent[u].kind
              /\ sent'[u].project = sent[u].project /\ sent'[u].todo = sent[u].todo
              /\ sent'[u].got = sent[u].got /\ sent'[u].ends = sent[u].ends
              /\ sent'[u].alone = FALSE
  <1> DEFINE b == \A u \in Awaited \ {s} : sent[u] = C!Idle
  <1>1. b \in BOOLEAN
    OBVIOUS
  <1>2. sent' = [t \in Awaited |-> IF t = s THEN [r EXCEPT !.alone = b]
                                            ELSE [sent[t] EXCEPT !.alone = FALSE]]
    BY Zenon DEF C!Sending
  <1>3. b => \A u \in Awaited \ {s} : sent[u] = C!Idle
    OBVIOUS
  <1> HIDE DEF b
  <1>4. /\ sent'[s] = [r EXCEPT !.alone = b]
        /\ \A u \in Awaited \ {s} : sent'[u] = [sent[u] EXCEPT !.alone = FALSE]
    BY <1>2
  <1>5. /\ sent'[s] \in Asked /\ sent'[s].pc = r.pc /\ sent'[s].kind = r.kind
        /\ sent'[s].project = r.project /\ sent'[s].conflict = r.conflict /\ sent'[s].todo = r.todo
        /\ sent'[s].got = r.got /\ sent'[s].ends = r.ends /\ sent'[s].alone = b
    BY <1>1, <1>4 DEF Asked
  <1>6. \A u \in Awaited \ {s} :
              /\ sent'[u] \in Asked
              /\ sent'[u].pc = sent[u].pc /\ sent'[u].kind = sent[u].kind
              /\ sent'[u].project = sent[u].project /\ sent'[u].todo = sent[u].todo
              /\ sent'[u].got = sent[u].got /\ sent'[u].ends = sent[u].ends
              /\ sent'[u].alone = FALSE
    <2> SUFFICES ASSUME NEW u \in Awaited \ {s}
                 PROVE  /\ sent'[u] \in Asked
                        /\ sent'[u].pc = sent[u].pc /\ sent'[u].kind = sent[u].kind
                        /\ sent'[u].project = sent[u].project /\ sent'[u].todo = sent[u].todo
                        /\ sent'[u].got = sent[u].got /\ sent'[u].ends = sent[u].ends
                        /\ sent'[u].alone = FALSE
      OBVIOUS
    <2>1. sent[u] \in Asked
      BY DEF CompTypes
    <2>2. sent'[u] = [sent[u] EXCEPT !.alone = FALSE]
      BY <1>4
    <2> QED BY <2>1, <2>2 DEF Asked
  <1>7. sent'[s].alone => \A u \in Awaited \ {s} : sent'[u] = C!Idle
    <2> SUFFICES ASSUME sent'[s].alone, NEW u \in Awaited \ {s} PROVE sent'[u] = C!Idle
      OBVIOUS
    <2>1. sent[u] = C!Idle
      BY <1>3, <1>5
    <2> QED BY <1>4, <2>1 DEF C!Idle
  <1>8. sent' \in [Awaited -> Asked]
    BY <1>2, <1>5, <1>6
  <1> QED BY <1>5, <1>6, <1>7, <1>8

LEMMA SendsTrue ==
  ASSUME CompInv, UNCHANGED C!server, NEW s \in Awaited, NEW r \in Asked, sent' = C!Sending(s, r),
         r.kind \in {"load", "run", "resolve"}, r.project \in Workspaces,
         r.kind = "load" => /\ r.todo = Parts /\ r.got.conflicts = {}
                            /\ r.got.project = r.project /\ r.got.ruleSets = RuleSetsOf[r.project]
  PROVE  /\ sent' \in [Awaited -> Asked] /\ LoadsTrue' /\ AloneTrue'
         /\ \A u \in Awaited : sent'[u].kind \in {"load", "run", "resolve"} => sent'[u].project \in Workspaces
  <1>1. CompTypes
    BY DEF CompInv
  <1>2. /\ sent' \in [Awaited -> Asked]
        /\ sent'[s].kind = r.kind /\ sent'[s].project = r.project /\ sent'[s].todo = r.todo
        /\ sent'[s].got = r.got
        /\ sent'[s].alone => \A u \in Awaited \ {s} : sent'[u] = C!Idle
        /\ \A u \in Awaited \ {s} :
              /\ sent'[u].kind = sent[u].kind /\ sent'[u].project = sent[u].project
              /\ sent'[u].todo = sent[u].todo /\ sent'[u].got = sent[u].got /\ sent'[u].alone = FALSE
    BY <1>1, Sends
  <1>3. LoadsTrue'
    <2>1. ASSUME NEW u \in Awaited \ {s}, sent'[u].kind = "load"
          PROVE  OfProject(sent'[u]) /\ sent'[u].alone = FALSE
      BY <1>2, <2>1 DEF CompInv, LoadsTrue, OfProject
    <2>2. ASSUME sent'[s].kind = "load" PROVE OfProject(sent'[s]) /\ Fresh(sent[s], sent[s].project)'
      BY <1>2, <2>2 DEF OfProject, Fresh, Parts
    <2> QED BY <2>1, <2>2 DEF LoadsTrue, OfProject
  <1>4. AloneTrue'
    BY <1>2 DEF AloneTrue
  <1>5. \A u \in Awaited : sent'[u].kind \in {"load", "run", "resolve"} => sent'[u].project \in Workspaces
    BY <1>2 DEF CompInv, CompKnown
  <1> QED BY <1>2, <1>3, <1>4, <1>5

\* The request of slot s has ended.
LEMMA EndsTrue ==
  ASSUME CompInv, UNCHANGED C!server, NEW s \in Awaited, sent' = [sent EXCEPT ![s] = C!Idle]
  PROVE  /\ sent' \in [Awaited -> Asked] /\ LoadsTrue' /\ AloneTrue'
         /\ \A u \in Awaited : sent'[u].kind \in {"load", "run", "resolve"} => sent'[u].project \in Workspaces
  <1>1. /\ sent' \in [Awaited -> Asked]
        /\ sent'[s] = C!Idle /\ sent'[s].kind = "none" /\ sent'[s].alone = FALSE
        /\ \A u \in Awaited \ {s} : sent'[u] = sent[u]
    BY IdleTyped DEF CompInv, CompTypes
  <1>2. LoadsTrue'
    BY <1>1 DEF CompInv, LoadsTrue, OfProject, Fresh, C!FetchNodes, C!LatestRequirements, C!ListConflicts, C!server
  <1>3. AloneTrue'
    BY <1>1 DEF CompInv, AloneTrue
  <1> QED BY <1>1, <1>2, <1>3 DEF CompInv, CompKnown

\* A request that is no load is answered, whatever the server does with it: no load has the
\* page to itself.
LEMMA AnswersTrue ==
  ASSUME CompInv, NEW s \in Awaited, sent[s].kind \in {"projects", "run", "resolve"},
         sent' = [sent EXCEPT ![s].pc = "answered"]
  PROVE  /\ sent' \in [Awaited -> Asked] /\ LoadsTrue' /\ AloneTrue'
         /\ \A u \in Awaited : sent'[u].kind = sent[u].kind /\ sent'[u].ends = sent[u].ends
         /\ \A u \in Awaited : sent'[u].kind \in {"load", "run", "resolve"} => sent'[u].project \in Workspaces
  <1>1. sent[s] \in Asked
    BY DEF CompInv, CompTypes
  <1>2. sent'[s] = [sent[s] EXCEPT !.pc = "answered"] /\ \A u \in Awaited \ {s} : sent'[u] = sent[u]
    BY DEF CompInv, CompTypes
  <1>3. /\ sent'[s] \in Asked /\ sent'[s].kind = sent[s].kind /\ sent'[s].project = sent[s].project
        /\ sent'[s].alone = sent[s].alone /\ sent'[s].ends = sent[s].ends
    BY <1>1, <1>2 DEF Asked
  <1>4. sent' \in [Awaited -> Asked]
    BY <1>3 DEF CompInv, CompTypes
  <1>5. ASSUME NEW u \in Awaited \ {s} PROVE ~sent[u].alone
    BY IdleTyped DEF CompInv, AloneTrue
  <1>6. LoadsTrue'
    BY <1>2, <1>3, <1>5 DEF CompInv, LoadsTrue, OfProject
  <1>7. AloneTrue'
    BY <1>2, <1>3, <1>5 DEF CompInv, AloneTrue
  <1>8. \A u \in Awaited : sent'[u].kind = sent[u].kind /\ sent'[u].project = sent[u].project
                           /\ sent'[u].ends = sent[u].ends
    BY <1>2, <1>3
  <1> QED BY <1>4, <1>6, <1>7, <1>8 DEF CompInv, CompKnown

\* Nothing but what is shown of the same project changes: what is shown stays true.
LEMMA SightKept ==
  ASSUME CompInv, UNCHANGED <<workspace, assistant>>, UNCHANGED C!server, settled' => settled
  PROVE  SightTrue'
  BY DEF CompInv, SightTrue, C!server, C!FetchNodes, C!LatestRequirements, C!ListConflicts

LoadOf(p, ends) ==
    [C!Idle EXCEPT !.pc = "sent", !.kind = "load", !.project = p, !.ends = ends, !.todo = Parts,
        !.got = [C!Cleared EXCEPT !.project = p, !.ruleSets = RuleSetsOf[p]]]

\* loadWorkspace goes on in slot s.
LEMMA LoadSent ==
  ASSUME CompInv, UNCHANGED C!server, NEW s \in Awaited, NEW p \in Workspaces,
         NEW ends \in {"none", "analyzing"}, C!LoadWorkspace(s, p, ends)
  PROVE  /\ sent' \in [Awaited -> Asked] /\ LoadsTrue' /\ AloneTrue'
         /\ \A u \in Awaited : sent'[u].kind \in {"load", "run", "resolve"} => sent'[u].project \in Workspaces
         /\ sent'[s].kind = "load" /\ sent'[s].ends = ends
         /\ \A u \in Awaited \ {s} : sent'[u].kind = sent[u].kind /\ sent'[u].ends = sent[u].ends
  <1> DEFINE got == [C!Cleared EXCEPT !.project = p, !.ruleSets = RuleSetsOf[p]]
             r == LoadOf(p, ends)
  <1>1. RuleSetsOf[p] \in Seq(Nat) /\ p \in OfProjects
    BY PagesAssumption DEF C!ComplianceAssumption, OfProjects
  <1>2. got \in Sight /\ got.conflicts = {} /\ got.project = p /\ got.ruleSets = RuleSetsOf[p]
    BY <1>1, IdleTyped DEF Sight
  <1> HIDE DEF got
  <1>3. r = [C!Idle EXCEPT !.pc = "sent", !.kind = "load", !.project = p, !.ends = ends,
                           !.todo = Parts, !.got = got]
    BY DEF LoadOf, got
  <1> HIDE DEF r
  <1>4. /\ r \in Asked /\ r.kind = "load" /\ r.project = p /\ r.ends = ends /\ r.todo = Parts
        /\ r.got = got
    BY <1>1, <1>2, <1>3, IdleTyped DEF Asked
  <1>5. sent' = C!Sending(s, r)
    BY DEF C!LoadWorkspace, r, LoadOf, Parts
  <1>6. CompTypes
    BY DEF CompInv
  <1>7. /\ sent'[s].kind = "load" /\ sent'[s].ends = ends
        /\ \A u \in Awaited \ {s} : sent'[u].kind = sent[u].kind /\ sent'[u].ends = sent[u].ends
    BY <1>4, <1>5, <1>6, Sends
  <1>8. /\ sent' \in [Awaited -> Asked] /\ LoadsTrue' /\ AloneTrue'
        /\ \A u \in Awaited : sent'[u].kind \in {"load", "run", "resolve"} => sent'[u].project \in Workspaces
    BY <1>2, <1>4, <1>5, SendsTrue
  <1> QED BY <1>7, <1>8

\* A run of the rule engine, or a resolution, is asked for.
LEMMA ChangeSent ==
  ASSUME CompInv, UNCHANGED C!server, NEW s \in Awaited, NEW r \in Asked, r.kind \in {"run", "resolve"},
         r.project \in Workspaces, sent' = C!Sending(s, r)
  PROVE  /\ sent' \in [Awaited -> Asked] /\ LoadsTrue' /\ AloneTrue'
         /\ \A u \in Awaited : sent'[u].kind \in {"load", "run", "resolve"} => sent'[u].project \in Workspaces
         /\ sent'[s].kind = r.kind
         /\ \A u \in Awaited \ {s} : sent'[u].kind = sent[u].kind /\ sent'[u].ends = sent[u].ends
  <1>1. CompTypes
    BY DEF CompInv
  <1>2. /\ sent'[s].kind = r.kind
        /\ \A u \in Awaited \ {s} : sent'[u].kind = sent[u].kind /\ sent'[u].ends = sent[u].ends
    BY <1>1, Sends
  <1>3. /\ sent' \in [Awaited -> Asked] /\ LoadsTrue' /\ AloneTrue'
        /\ \A u \in Awaited : sent'[u].kind \in {"load", "run", "resolve"} => sent'[u].project \in Workspaces
    BY SendsTrue
  <1> QED BY <1>2, <1>3

LEMMA RuleSetsTyped ==
  /\ RuleSetsOf \in [Workspaces -> Seq(Nat)] /\ C!AllRuleSets \subseteq Nat
  /\ \A p \in Workspaces : RuleSetsOf[p] # <<>> => Head(RuleSetsOf[p]) \in C!ToSet(RuleSetsOf[p])
  <1>1. RuleSetsOf \in [Workspaces -> Seq(Nat)]
    BY PagesAssumption DEF C!ComplianceAssumption
  <1>2. C!AllRuleSets \subseteq Nat
    BY <1>1 DEF C!AllRuleSets, C!ToSet
  <1>3. ASSUME NEW p \in Workspaces, RuleSetsOf[p] # <<>> PROVE Head(RuleSetsOf[p]) \in C!ToSet(RuleSetsOf[p])
    <2>1. RuleSetsOf[p] \in Seq(Nat) /\ Len(RuleSetsOf[p]) >= 1
      BY <1>1, <1>3
    <2>2. Head(RuleSetsOf[p]) = RuleSetsOf[p][1] /\ 1 \in DOMAIN RuleSetsOf[p]
      BY <2>1
    <2> QED BY <2>2 DEF C!ToSet
  <1> QED BY <1>1, <1>2, <1>3

SentTrue ==
    /\ sent \in [Awaited -> Asked] /\ LoadsTrue /\ AloneTrue
    /\ \A u \in Awaited : sent[u].kind \in {"load", "run", "resolve"} => sent[u].project \in Workspaces

\* Requests come and go, the flags with them; nothing is shown.
LEMMA PageKept ==
  ASSUME CompInv, UNCHANGED <<known, workspace, conflict, assistant, settled>>, UNCHANGED C!server,
         busy' \subseteq {"loading", "analyzing", "submitting"}, SentTrue', FlagsHeld',
         offered = <<>> => \A u \in Awaited : sent'[u].kind \in {"none", "projects"}
  PROVE  CompInv'
  <1>1. CompTypes'
    BY DEF CompInv, CompTypes, SentTrue, C!server
  <1>2. CompKnown'
    BY DEF CompInv, CompKnown, SentTrue, C!server
  <1>3. SightTrue'
    BY SightKept
  <1> QED BY <1>1, <1>2, <1>3 DEF CompInv, SentTrue

\* A request of slot s ends, and takes the flags in down with it.
LEMMA EndKept ==
  ASSUME CompInv, UNCHANGED <<known, workspace, conflict, assistant, settled>>, UNCHANGED C!server,
         NEW s \in Awaited, sent' = [sent EXCEPT ![s] = C!Idle], NEW down, busy' = busy \ down,
         sent[s].kind \in {"projects", "load"} => "loading" \in down,
         sent[s].kind = "run" => "analyzing" \in down,
         sent[s].kind = "load" => sent[s].ends \in down,
         sent[s].kind = "resolve" => "submitting" \in down
  PROVE  CompInv'
  <1>1. SentTrue'
    BY EndsTrue DEF SentTrue
  <1>2. busy' \subseteq {"loading", "analyzing", "submitting"}
    BY DEF CompInv, CompTypes
  <1>3. sent'[s].kind = "none" /\ \A u \in Awaited \ {s} : sent'[u] = sent[u]
    BY IdleTyped DEF CompInv, CompTypes
  <1>4. FlagsHeld'
    BY <1>3 DEF CompInv, FlagsHeld
  <1>5. offered = <<>> => \A u \in Awaited : sent'[u].kind \in {"none", "projects"}
    BY <1>3 DEF CompInv, CompKnown
  <1> QED BY <1>1, <1>2, <1>4, <1>5, PageKept

LEMMA FreeIdle ==
  ASSUME NEW s \in Awaited, C!Free(s)
  PROVE  sent[s].kind = "none"
  BY IdleTyped DEF C!Free

LEMMA CompOpens ==
  ASSUME CompInv, NEW s \in Awaited,
         C!FetchProjects(s) \/ C!ProjectsKnown(s) \/ C!ClearWorkspaceState(s) \/ C!ProjectsFail(s)
  PROVE  CompInv'
  <1>1. CASE C!FetchProjects(s)
    <2>1. SentTrue' /\ \A u \in Awaited : sent'[u].kind = sent[u].kind /\ sent'[u].ends = sent[u].ends
      BY <1>1, AnswersTrue DEF C!FetchProjects, SentTrue
    <2>2. FlagsHeld' /\ busy' \subseteq {"loading", "analyzing", "submitting"}
      BY <1>1, <2>1 DEF CompInv, CompTypes, FlagsHeld, C!FetchProjects
    <2>3. offered = <<>> => \A u \in Awaited : sent'[u].kind \in {"none", "projects"}
      BY <2>1 DEF CompInv, CompKnown
    <2> QED BY <1>1, <2>1, <2>2, <2>3, PageKept DEF C!FetchProjects
  <1>2. CASE C!ProjectsKnown(s)
    <2>1. Head(offered) \in Workspaces /\ offered # <<>>
      BY <1>2 DEF C!ProjectsKnown, CompInv, CompTypes
    <2>2. C!LoadWorkspace(s, Head(offered), "none") /\ sent[s].kind = "projects"
      BY <1>2 DEF C!ProjectsKnown, C!AnswersTo
    <2>3. /\ SentTrue' /\ sent'[s].kind = "load"
          /\ \A u \in Awaited \ {s} : sent'[u].kind = sent[u].kind /\ sent'[u].ends = sent[u].ends
      BY <1>2, <2>1, <2>2, LoadSent DEF C!ProjectsKnown, SentTrue
    <2>4. /\ known' = offered
          /\ UNCHANGED <<workspace, conflict, busy, assistant, settled>> /\ UNCHANGED C!server
      BY <1>2 DEF C!ProjectsKnown
    <2>5. CompTypes'
      BY <2>3, <2>4 DEF CompInv, CompTypes, SentTrue, C!server
    <2>6. CompKnown'
      BY <2>1, <2>3, <2>4 DEF CompInv, CompKnown, SentTrue, C!server
    <2>7. SightTrue'
      BY <2>4, SightKept
    <2>8. FlagsHeld'
      BY <2>2, <2>3, <2>4 DEF CompInv, FlagsHeld
    <2> QED BY <2>3, <2>5, <2>6, <2>7, <2>8 DEF CompInv, SentTrue
  <1>3. CASE C!ClearWorkspaceState(s)
    <2>1. /\ sent' = [sent EXCEPT ![s] = C!Idle] /\ sent[s].kind = "projects" /\ offered = <<>>
          /\ workspace' = C!Cleared /\ busy' = busy \ {"loading"} /\ assistant' = FALSE
          /\ UNCHANGED <<known, conflict, settled>> /\ UNCHANGED C!server
      BY <1>3 DEF C!ClearWorkspaceState, C!AnswersTo
    <2>2. SentTrue'
      BY <2>1, EndsTrue DEF SentTrue
    <2>3. sent'[s].kind = "none" /\ \A u \in Awaited \ {s} : sent'[u] = sent[u]
      BY <2>1, IdleTyped DEF CompInv, CompTypes
    <2>4. CompTypes'
      BY <2>1, <2>2, IdleTyped DEF CompInv, CompTypes, SentTrue, C!server
    <2>5. CompKnown'
      BY <2>1, <2>2, <2>3, IdleTyped DEF CompInv, CompKnown, SentTrue, C!server
    <2>6. SightTrue'
      BY <2>1, IdleTyped DEF SightTrue
    <2>7. FlagsHeld'
      BY <2>1, <2>3 DEF CompInv, FlagsHeld
    <2> QED BY <2>2, <2>4, <2>5, <2>6, <2>7 DEF CompInv, SentTrue
  <1>4. CASE C!ProjectsFail(s)
    <2> DEFINE down == {"loading"}
    <2>1. sent[s].kind = "projects" /\ sent' = [sent EXCEPT ![s] = C!Idle] /\ busy' = busy \ down
      BY <1>4 DEF C!ProjectsFail
    <2> QED BY <1>4, <2>1, EndKept DEF C!ProjectsFail
  <1> QED BY <1>1, <1>2, <1>3, <1>4

LEMMA CompAsks ==
  ASSUME CompInv, NEW s \in Awaited,
         (\E p \in Workspaces : C!SelectProject(s, p)) \/ C!HandleAnalyze(s) \/ C!HandleSubmit(s)
           \/ C!Evaluated(s)
  PROVE  CompInv'
  <1>0. \A p \in Workspaces : p \in C!ToSet(known) => offered # <<>>
    BY DEF CompInv, CompKnown, C!ToSet
  <1>1. ASSUME NEW p \in Workspaces, C!SelectProject(s, p) PROVE CompInv'
    <2>1. offered # <<>> /\ sent[s].kind = "none"
      BY <1>0, <1>1, FreeIdle DEF C!SelectProject
    <2>2. /\ SentTrue' /\ sent'[s].kind = "load"
          /\ \A u \in Awaited \ {s} : sent'[u].kind = sent[u].kind /\ sent'[u].ends = sent[u].ends
      BY <1>1, LoadSent DEF C!SelectProject, SentTrue
    <2>3. FlagsHeld' /\ busy' \subseteq {"loading", "analyzing", "submitting"}
      BY <1>1, <2>1, <2>2 DEF CompInv, CompTypes, FlagsHeld, C!SelectProject
    <2> QED BY <1>1, <2>1, <2>2, <2>3, PageKept DEF C!SelectProject
  <1>2. CASE C!HandleAnalyze(s)
    <2>1. sent[s].kind = "none" /\ workspace.project \in Workspaces
      BY <1>2, FreeIdle DEF C!HandleAnalyze, CompInv, CompTypes, Sight, OfProjects
    <2>2. /\ SentTrue' /\ sent'[s].kind = "run"
          /\ \A u \in Awaited \ {s} : sent'[u].kind = sent[u].kind /\ sent'[u].ends = sent[u].ends
      <3> DEFINE r == [C!Idle EXCEPT !.pc = "sent", !.kind = "run", !.project = workspace.project]
      <3>1. r \in Asked /\ r.kind = "run" /\ r.project = workspace.project
        BY <2>1, IdleTyped DEF Asked, OfProjects
      <3>2. sent' = C!Sending(s, r) /\ UNCHANGED C!server
        BY <1>2 DEF C!HandleAnalyze, C!Run
      <3> HIDE DEF r
      <3> QED BY <2>1, <3>1, <3>2, ChangeSent DEF SentTrue
    <2>3. FlagsHeld' /\ busy' \subseteq {"loading", "analyzing", "submitting"}
      BY <1>2, <2>1, <2>2 DEF CompInv, CompTypes, FlagsHeld, C!HandleAnalyze
    <2>4. offered # <<>>
      BY <1>2 DEF C!HandleAnalyze, CompInv, CompKnown
    <2> QED BY <1>2, <2>2, <2>3, <2>4, PageKept DEF C!HandleAnalyze
  <1>3. CASE C!HandleSubmit(s)
    <2>1. /\ sent[s].kind = "none" /\ workspace.project \in Workspaces /\ offered # <<>>
          /\ conflict \in Seen
      BY <1>3, FreeIdle DEF C!HandleSubmit, CompInv, CompTypes, CompKnown
    <2>2. /\ SentTrue' /\ sent'[s].kind = "resolve"
          /\ \A u \in Awaited \ {s} : sent'[u].kind = sent[u].kind /\ sent'[u].ends = sent[u].ends
      <3> DEFINE r == [C!Idle EXCEPT !.pc = "sent", !.kind = "resolve", !.project = workspace.project,
                                     !.conflict = conflict]
      <3>1. r \in Asked /\ r.kind = "resolve" /\ r.project = workspace.project
        BY <2>1, IdleTyped DEF Asked, OfProjects
      <3>2. sent' = C!Sending(s, r) /\ UNCHANGED C!server
        BY <1>3 DEF C!HandleSubmit
      <3> HIDE DEF r
      <3> QED BY <2>1, <3>1, <3>2, ChangeSent DEF SentTrue
    <2>3. FlagsHeld' /\ busy' \subseteq {"loading", "analyzing", "submitting"}
      BY <1>3, <2>1, <2>2 DEF CompInv, CompTypes, FlagsHeld, C!HandleSubmit
    <2> QED BY <1>3, <2>1, <2>2, <2>3, PageKept DEF C!HandleSubmit
  <1>4. CASE C!Evaluated(s)
    <2>1. sent[s].kind = "run" /\ sent[s].project \in Workspaces /\ offered # <<>>
      BY <1>4 DEF C!Evaluated, C!AnswersTo, CompInv, CompKnown
    <2>2. /\ SentTrue' /\ sent'[s].kind = "load" /\ sent'[s].ends = "analyzing"
          /\ \A u \in Awaited \ {s} : sent'[u].kind = sent[u].kind /\ sent'[u].ends = sent[u].ends
      BY <1>4, <2>1, LoadSent DEF C!Evaluated, SentTrue
    <2>3. FlagsHeld' /\ busy' \subseteq {"loading", "analyzing", "submitting"}
      BY <1>4, <2>1, <2>2 DEF CompInv, CompTypes, FlagsHeld, C!Evaluated
    <2> QED BY <1>4, <2>1, <2>2, <2>3, PageKept DEF C!Evaluated
  <1> QED BY <1>1, <1>2, <1>3, <1>4

LEMMA CompShown ==
  ASSUME CompInv, NEW s \in Awaited, C!WorkspaceLoaded(s)
  PROVE  CompInv'
  <1> DEFINE got == sent[s].got
             p == sent[s].project
  <1>1. /\ sent[s] \in Asked /\ sent[s].kind = "load" /\ sent[s].todo = {} /\ p \in Workspaces
        /\ got \in Sight /\ OfProject(sent[s]) /\ (sent[s].alone => Fresh(sent[s], p))
        /\ sent[s].alone \in BOOLEAN /\ sent[s].ends \in {"none", "analyzing"} /\ workspace \in Sight
    BY DEF CompInv, CompTypes, CompKnown, LoadsTrue, C!WorkspaceLoaded, Asked
  <1>2. /\ workspace' = C!Show(got) /\ busy' = busy \ {"loading", sent[s].ends} /\ assistant' = FALSE
        /\ settled' = sent[s].alone /\ sent' = [sent EXCEPT ![s] = C!Idle]
        /\ UNCHANGED <<known, conflict>> /\ UNCHANGED C!server
    BY DEF C!WorkspaceLoaded
  <1>3. SentTrue'
    BY <1>2, EndsTrue DEF SentTrue
  <1>4. sent'[s].kind = "none" /\ \A u \in Awaited \ {s} : sent'[u] = sent[u]
    BY <1>2, IdleTyped DEF CompInv, CompTypes
  <1>5. got.ruleSets \in Seq(Nat) /\ got.ruleSets = RuleSetsOf[p] /\ got.project = p
    BY <1>1 DEF Sight, OfProject
  <1>6. /\ workspace' \in Sight
        /\ workspace'.project = p /\ workspace'.ruleSets = got.ruleSets /\ workspace'.nodes = got.nodes
        /\ workspace'.requirements = got.requirements /\ workspace'.conflicts = got.conflicts
        /\ \/ workspace'.ruleSet \in C!ToSet(got.ruleSets)
           \/ got.ruleSets = <<>> /\ workspace'.ruleSet = 0
    <2> DEFINE r == IF workspace.ruleSet \in C!ToSet(got.ruleSets) THEN workspace.ruleSet
                    ELSE IF got.ruleSets = <<>> THEN 0 ELSE Head(got.ruleSets)
    <2>1. workspace' = [got EXCEPT !.ruleSet = r]
      BY <1>2 DEF C!Show
    <2>2. got.ruleSets # <<>> => Head(got.ruleSets) \in C!ToSet(got.ruleSets)
      BY <1>1, <1>5, RuleSetsTyped
    <2>3. C!ToSet(got.ruleSets) \subseteq Nat
      BY <1>5 DEF C!ToSet
    <2>4. /\ r \in Nat
          /\ r \in C!ToSet(got.ruleSets) \/ (got.ruleSets = <<>> /\ r = 0)
      BY <2>2, <2>3
    <2> HIDE DEF r
    <2> QED BY <1>1, <1>5, <2>1, <2>4 DEF Sight
  <1>7. CompTypes'
    BY <1>1, <1>2, <1>3, <1>6 DEF CompInv, CompTypes, SentTrue, C!server
  <1>8. CompKnown'
    BY <1>1, <1>2, <1>3, <1>4, <1>6 DEF CompInv, CompKnown, SentTrue, C!server
  <1>9. SightTrue'
    <2>1. /\ workspace'.nodes[1] = p /\ workspace'.requirements[1] = p
          /\ \A c \in workspace'.conflicts : c[1] = p
      BY <1>1, <1>6 DEF OfProject
    <2>2. settled' => /\ workspace'.nodes = C!FetchNodes(p) /\ workspace'.requirements = C!LatestRequirements(p)
                      /\ workspace'.conflicts = C!ListConflicts(p)
      BY <1>1, <1>2, <1>6 DEF Fresh
    <2> QED BY <1>2, <1>5, <1>6, <2>1, <2>2 DEF SightTrue, C!server, C!FetchNodes, C!LatestRequirements, C!ListConflicts
  <1>10. FlagsHeld'
    BY <1>1, <1>2, <1>4 DEF CompInv, FlagsHeld
  <1> QED BY <1>3, <1>7, <1>8, <1>9, <1>10 DEF CompInv, SentTrue

LEMMA CompReads ==
  ASSUME CompInv, NEW s \in Awaited, NEW part \in sent[s].todo, C!Read(s, part)
  PROVE  CompInv'
  <1> DEFINE p == sent[s].project
             got == sent[s].got
             value == CASE part = "nodes"        -> C!FetchNodes(p)
                        [] part = "requirements" -> C!LatestRequirements(p)
                        [] part = "conflicts"    -> C!ListConflicts(p)
  <1>1. /\ sent[s] \in Asked /\ sent[s].kind = "load" /\ part \in Parts /\ p \in Workspaces
        /\ got \in Sight /\ OfProject(sent[s]) /\ (sent[s].alone => Fresh(sent[s], p))
    BY DEF CompInv, CompTypes, CompKnown, LoadsTrue, C!Read, Asked
  <1>2. /\ C!FetchNodes(p) \in Seen /\ C!FetchNodes(p)[1] = p
        /\ C!LatestRequirements(p) \in Seen /\ C!LatestRequirements(p)[1] = p
        /\ C!ListConflicts(p) \subseteq Workspaces \X Nat /\ \A c \in C!ListConflicts(p) : c[1] = p
    BY <1>1 DEF C!FetchNodes, C!LatestRequirements, C!ListConflicts, Seen, OfProjects, CompInv, CompTypes
  <1>3. UNCHANGED <<known, workspace, conflict, busy, assistant, settled>> /\ UNCHANGED C!server
    BY DEF C!Read
  <1>4. /\ sent' = [sent EXCEPT ![s].todo = @ \ {part}, ![s].got = [@ EXCEPT ![part] = value]]
    BY DEF C!Read
  <1>5. /\ sent'[s] = [sent[s] EXCEPT !.todo = @ \ {part}, !.got = [got EXCEPT ![part] = value]]
        /\ \A u \in Awaited \ {s} : sent'[u] = sent[u]
        /\ DOMAIN sent' = Awaited
    BY <1>4 DEF CompInv, CompTypes
  <1> DEFINE g == [got EXCEPT ![part] = value]
  <1>6. /\ g \in Sight /\ g.project = got.project /\ g.ruleSets = got.ruleSets
        /\ IF part = "nodes" THEN g.nodes = C!FetchNodes(p) ELSE g.nodes = got.nodes
        /\ IF part = "requirements" THEN g.requirements = C!LatestRequirements(p)
                                    ELSE g.requirements = got.requirements
        /\ IF part = "conflicts" THEN g.conflicts = C!ListConflicts(p) ELSE g.conflicts = got.conflicts
    <2>1. CASE part = "nodes"
      <3>1. g = [got EXCEPT !.nodes = C!FetchNodes(p)]
        BY <2>1
      <3> HIDE DEF g
      <3> QED BY <1>1, <1>2, <2>1, <3>1 DEF Sight
    <2>2. CASE part = "requirements"
      <3>1. g = [got EXCEPT !.requirements = C!LatestRequirements(p)]
        BY <2>2
      <3> HIDE DEF g
      <3> QED BY <1>1, <1>2, <2>2, <3>1 DEF Sight
    <2>3. CASE part = "conflicts"
      <3>1. g = [got EXCEPT !.conflicts = C!ListConflicts(p)]
        BY <2>3
      <3> HIDE DEF g
      <3> QED BY <1>1, <1>2, <2>3, <3>1 DEF Sight
    <2> QED BY <1>1, <2>1, <2>2, <2>3 DEF Parts
  <1> HIDE DEF g, value
  <1>7. /\ sent'[s] \in Asked /\ sent'[s].kind = sent[s].kind /\ sent'[s].project = p
        /\ sent'[s].todo = sent[s].todo \ {part} /\ sent'[s].got = g /\ sent'[s].ends = sent[s].ends
        /\ sent'[s].alone = sent[s].alone
    <2>1. sent'[s] = [sent[s] EXCEPT !.todo = @ \ {part}, !.got = g]
      BY <1>5 DEF g
    <2> QED BY <1>1, <1>6, <2>1 DEF Asked
  <1>8. OfProject(sent'[s])
    BY <1>1, <1>2, <1>6, <1>7 DEF OfProject
  <1>9. sent'[s].alone => Fresh(sent'[s], p)
    BY <1>1, <1>6, <1>7 DEF Fresh
  <1>10. sent' \in [Awaited -> Asked]
    <2>1. \A u \in Awaited : sent'[u] \in Asked
      BY <1>5, <1>7 DEF CompInv, CompTypes
    <2>2. sent' = [u \in Awaited |-> sent'[u]]
      BY <1>4, <1>5 DEF CompInv, CompTypes
    <2> QED BY <2>1, <2>2
  <1>11. LoadsTrue'
    <2>1. \A q : Fresh(sent'[s], q) => Fresh(sent[s], q)'
      BY <1>3 DEF Fresh, C!server, C!FetchNodes, C!LatestRequirements, C!ListConflicts
    <2>2. ASSUME NEW u \in Awaited \ {s}, sent[u].kind = "load"
          PROVE  OfProject(sent[u])' /\ (sent[u].alone => Fresh(sent[u], sent[u].project)')
      BY <1>3, <1>5, <2>2 DEF CompInv, LoadsTrue, OfProject, Fresh, C!server, C!FetchNodes, C!LatestRequirements,
         C!ListConflicts
    <2>3. OfProject(sent[s])' /\ (sent[s].alone => Fresh(sent[s], p)')
      BY <1>7, <1>8, <1>9, <2>1 DEF OfProject
    <2> QED BY <1>5, <1>7, <2>2, <2>3 DEF LoadsTrue
  <1>12. AloneTrue'
    <2>1. \A u \in Awaited \ {s} : ~sent'[u].alone
      BY <1>1, <1>5, IdleTyped DEF CompInv, AloneTrue
    <2>2. sent'[s].alone => \A u \in Awaited \ {s} : sent'[u] = C!Idle
      BY <1>5, <1>7 DEF CompInv, AloneTrue
    <2> QED BY <2>1, <2>2 DEF AloneTrue
  <1>13. \A u \in Awaited : /\ sent'[u].kind = sent[u].kind /\ sent'[u].ends = sent[u].ends
                            /\ sent'[u].project = sent[u].project
    BY <1>5, <1>7
  <1>14. SentTrue'
    BY <1>10, <1>11, <1>12, <1>13 DEF SentTrue, CompInv, CompKnown
  <1>15. FlagsHeld' /\ busy' \subseteq {"loading", "analyzing", "submitting"}
    BY <1>3, <1>13 DEF CompInv, CompTypes, FlagsHeld
  <1>16. offered = <<>> => \A u \in Awaited : sent'[u].kind \in {"none", "projects"}
    BY <1>13 DEF CompInv, CompKnown
  <1> QED BY <1>3, <1>14, <1>15, <1>16, PageKept

LEMMA CompChooses ==
  ASSUME CompInv,
         \/ C!CancelConflict \/ (\E r \in C!AllRuleSets : C!SelectRuleSet(r))
         \/ \E c \in unresolved \cup workspace.conflicts : C!OpenConflict(c)
  PROVE  CompInv'
  <1>1. CASE C!CancelConflict
    <2>1. /\ conflict' = C!NoConflict /\ UNCHANGED <<known, workspace, busy, sent, assistant, settled>>
          /\ UNCHANGED C!server
      BY <1>1 DEF C!CancelConflict
    <2>2. CompTypes'
      BY <2>1 DEF CompInv, CompTypes, C!server, C!NoConflict, Seen, OfProjects
    <2>3. CompKnown' /\ AloneTrue' /\ FlagsHeld'
      BY <2>1 DEF CompInv, CompKnown, AloneTrue, FlagsHeld, C!server
    <2>4. LoadsTrue'
      BY <2>1 DEF CompInv, LoadsTrue, OfProject, Fresh, C!server, C!FetchNodes, C!LatestRequirements,
         C!ListConflicts
    <2>5. SightTrue'
      BY <2>1, SightKept
    <2> QED BY <2>2, <2>3, <2>4, <2>5 DEF CompInv
  <1>2. ASSUME NEW r \in C!AllRuleSets, C!SelectRuleSet(r) PROVE CompInv'
    <2>1. /\ workspace' = [workspace EXCEPT !.ruleSet = r] /\ assistant' = FALSE
          /\ UNCHANGED <<known, conflict, busy, sent, settled>> /\ UNCHANGED C!server
          /\ r \in C!ToSet(workspace.ruleSets) /\ workspace \in Sight /\ r \in Nat
      BY <1>2, RuleSetsTyped DEF C!SelectRuleSet, CompInv, CompTypes
    <2>2. /\ workspace' \in Sight /\ workspace'.ruleSet = r
          /\ workspace'.project = workspace.project /\ workspace'.ruleSets = workspace.ruleSets
          /\ workspace'.nodes = workspace.nodes /\ workspace'.requirements = workspace.requirements
          /\ workspace'.conflicts = workspace.conflicts
      BY <2>1 DEF Sight
    <2>3. CompTypes'
      BY <2>1, <2>2 DEF CompInv, CompTypes, C!server
    <2>4. CompKnown' /\ AloneTrue' /\ FlagsHeld'
      BY <2>1, <2>2 DEF CompInv, CompKnown, AloneTrue, FlagsHeld, C!server
    <2>5. LoadsTrue'
      BY <2>1 DEF CompInv, LoadsTrue, OfProject, Fresh, C!server, C!FetchNodes, C!LatestRequirements,
         C!ListConflicts
    <2>6. SightTrue'
      BY <2>1, <2>2 DEF CompInv, SightTrue, C!server, C!FetchNodes, C!LatestRequirements, C!ListConflicts
    <2> QED BY <2>3, <2>4, <2>5, <2>6 DEF CompInv
  <1>3. ASSUME NEW c \in unresolved \cup workspace.conflicts, C!OpenConflict(c) PROVE CompInv'
    <2>1. /\ conflict' = c /\ UNCHANGED <<known, workspace, busy, sent, assistant, settled>>
          /\ UNCHANGED C!server /\ c \in workspace.conflicts
      BY <1>3 DEF C!OpenConflict
    <2>2. c \in Seen
      BY <2>1 DEF CompInv, CompTypes, Sight, Seen, OfProjects
    <2>3. CompTypes'
      BY <2>1, <2>2 DEF CompInv, CompTypes, C!server
    <2>4. CompKnown' /\ AloneTrue' /\ FlagsHeld'
      BY <2>1 DEF CompInv, CompKnown, AloneTrue, FlagsHeld, C!server
    <2>5. LoadsTrue'
      BY <2>1 DEF CompInv, LoadsTrue, OfProject, Fresh, C!server, C!FetchNodes, C!LatestRequirements,
         C!ListConflicts
    <2>6. SightTrue'
      BY <2>1, SightKept
    <2> QED BY <2>3, <2>4, <2>5, <2>6 DEF CompInv
  <1> QED BY <1>1, <1>2, <1>3

LEMMA CompAssists ==
  ASSUME CompInv, NEW s \in Awaited, NEW p \in Workspaces, NEW r \in C!AllRuleSets,
         C!RunComplianceAudit(s, p, r)
  PROVE  CompInv'
  <1>1. /\ workspace' = [workspace EXCEPT !.ruleSet = r] /\ assistant' = TRUE
        /\ busy' = busy \cup {"analyzing"}
        /\ UNCHANGED <<known, conflict, settled>> /\ UNCHANGED C!server
        /\ workspace \in Sight /\ r \in Nat /\ sent[s].kind = "none" /\ offered # <<>>
    BY RuleSetsTyped, FreeIdle DEF C!RunComplianceAudit, CompInv, CompTypes, C!ToSet
  <1>2. /\ workspace' \in Sight
        /\ workspace'.project = workspace.project /\ workspace'.ruleSets = workspace.ruleSets
        /\ workspace'.nodes = workspace.nodes /\ workspace'.requirements = workspace.requirements
        /\ workspace'.conflicts = workspace.conflicts
    BY <1>1 DEF Sight
  <1>3. /\ SentTrue' /\ sent'[s].kind = "run"
        /\ \A u \in Awaited \ {s} : sent'[u].kind = sent[u].kind /\ sent'[u].ends = sent[u].ends
    <2> DEFINE q == [C!Idle EXCEPT !.pc = "sent", !.kind = "run", !.project = p]
    <2>1. q \in Asked /\ q.kind = "run" /\ q.project = p
      BY IdleTyped DEF Asked, OfProjects
    <2>2. sent' = C!Sending(s, q)
      BY DEF C!RunComplianceAudit, C!Run
    <2> HIDE DEF q
    <2> QED BY <1>1, <2>1, <2>2, ChangeSent DEF SentTrue
  <1>4. CompTypes'
    BY <1>1, <1>2, <1>3 DEF CompInv, CompTypes, SentTrue, C!server
  <1>5. CompKnown'
    BY <1>1, <1>2, <1>3 DEF CompInv, CompKnown, SentTrue, C!server
  <1>6. SightTrue'
    BY <1>1, <1>2 DEF CompInv, SightTrue, C!server, C!FetchNodes, C!LatestRequirements, C!ListConflicts
  <1>7. FlagsHeld'
    BY <1>1, <1>3 DEF CompInv, FlagsHeld
  <1> QED BY <1>3, <1>4, <1>5, <1>6, <1>7 DEF CompInv, SentTrue

\* The server evaluates the rules, or resolves a conflict.
LEMMA CompServes ==
  ASSUME CompInv, NEW s \in Awaited, C!RunRuleEngine(s) \/ C!ResolveConflict(s)
  PROVE  CompInv'
  <1>1. /\ sent[s].kind \in {"run", "resolve"} /\ sent' = [sent EXCEPT ![s].pc = "answered"]
        /\ UNCHANGED <<offered, edition, known, workspace, conflict, busy, assistant>>
    BY DEF C!RunRuleEngine, C!ResolveConflict
  <1>2. SentTrue' /\ \A u \in Awaited : sent'[u].kind = sent[u].kind /\ sent'[u].ends = sent[u].ends
    BY <1>1, AnswersTrue DEF SentTrue
  <1>3. /\ evaluated' \in [Workspaces -> Nat] /\ unresolved' \subseteq Workspaces \X Nat
        /\ settled' \in BOOLEAN
        /\ settled' => settled /\ UNCHANGED <<evaluated, unresolved>>
    <2>1. CASE C!RunRuleEngine(s)
      <3>1. sent[s].project \in Workspaces
        BY <1>1 DEF CompInv, CompKnown
      <3>2. evaluated[sent[s].project] + 1 \in Nat
        BY <3>1 DEF CompInv, CompTypes
      <3>3. <<sent[s].project, evaluated[sent[s].project] + 1>> \in Workspaces \X Nat
        BY <3>1, <3>2
      <3>4. unresolved' = unresolved \cup {<<sent[s].project, evaluated[sent[s].project] + 1>>}
        BY <2>1 DEF C!RunRuleEngine
      <3>5. unresolved' \subseteq Workspaces \X Nat
        BY <3>3, <3>4 DEF CompInv, CompTypes
      <3>6. evaluated' \in [Workspaces -> Nat]
        BY <2>1, <3>1, <3>2 DEF CompInv, CompTypes, C!RunRuleEngine
      <3> QED BY <2>1, <3>5, <3>6 DEF C!RunRuleEngine
    <2>2. CASE C!ResolveConflict(s)
      <3> DEFINE b == sent[s].conflict \notin unresolved
      <3>1. b \in BOOLEAN /\ (b => unresolved \ {sent[s].conflict} = unresolved) /\ settled \in BOOLEAN
        BY DEF CompInv, CompTypes
      <3>2. /\ settled' = (settled /\ b) /\ unresolved' = unresolved \ {sent[s].conflict}
            /\ evaluated' = evaluated
        BY <2>2 DEF C!ResolveConflict
      <3> HIDE DEF b
      <3>3. settled' \in BOOLEAN /\ (settled' => settled /\ b)
        BY <3>1, <3>2
      <3> QED BY <3>1, <3>2, <3>3 DEF CompInv, CompTypes
    <2> QED BY <2>1, <2>2
  <1>4. CompTypes'
    BY <1>1, <1>2, <1>3 DEF CompInv, CompTypes, SentTrue
  <1>5. CompKnown'
    BY <1>1, <1>2 DEF CompInv, CompKnown, SentTrue
  <1>6. SightTrue'
    BY <1>1, <1>3 DEF CompInv, SightTrue, C!FetchNodes, C!LatestRequirements, C!ListConflicts
  <1>7. FlagsHeld'
    BY <1>1, <1>2 DEF CompInv, FlagsHeld
  <1> QED BY <1>2, <1>4, <1>5, <1>6, <1>7 DEF CompInv, SentTrue

LEMMA CompOthers ==
  ASSUME CompInv, NEW p \in Workspaces, C!OthersChange(p)
  PROVE  CompInv'
  <1>1. /\ sent' = C!Disturbed /\ settled' = FALSE
        /\ UNCHANGED <<offered, known, workspace, conflict, busy, assistant>>
    BY DEF C!OthersChange
  <1>2. /\ evaluated' \in [Workspaces -> Nat] /\ edition' \in [Workspaces -> Nat]
        /\ unresolved' \subseteq Workspaces \X Nat
    <2>1. evaluated[p] + 1 \in Nat /\ edition[p] + 1 \in Nat
      BY DEF CompInv, CompTypes
    <2>2. unresolved' \subseteq unresolved \cup {<<p, evaluated[p] + 1>>}
      BY DEF C!OthersChange
    <2>3. <<p, evaluated[p] + 1>> \in Workspaces \X Nat
      BY <2>1
    <2>4. unresolved' \subseteq Workspaces \X Nat
      BY <2>2, <2>3 DEF CompInv, CompTypes
    <2>5. \/ edition' = [edition EXCEPT ![p] = @ + 1] /\ UNCHANGED evaluated
          \/ evaluated' = [evaluated EXCEPT ![p] = @ + 1] /\ UNCHANGED edition
          \/ UNCHANGED <<evaluated, edition>>
      BY DEF C!OthersChange
    <2>6. evaluated' \in [Workspaces -> Nat] /\ edition' \in [Workspaces -> Nat]
      BY <2>1, <2>5 DEF CompInv, CompTypes
    <2> QED BY <2>4, <2>6
  <1>3. ASSUME NEW u \in Awaited
        PROVE  /\ sent'[u] \in Asked
               /\ sent'[u].kind = sent[u].kind /\ sent'[u].project = sent[u].project
               /\ sent'[u].todo = sent[u].todo /\ sent'[u].got = sent[u].got /\ sent'[u].ends = sent[u].ends
               /\ sent'[u].alone = FALSE
    <2>1. sent[u] \in Asked
      BY DEF CompInv, CompTypes
    <2>2. sent'[u] = [sent[u] EXCEPT !.alone = FALSE]
      BY <1>1 DEF C!Disturbed
    <2> QED BY <2>1, <2>2 DEF Asked
  <1>4. sent' \in [Awaited -> Asked]
    <2>1. sent' = [u \in Awaited |-> [sent[u] EXCEPT !.alone = FALSE]]
      BY <1>1 DEF C!Disturbed
    <2> QED BY <1>3, <2>1
  <1>5. LoadsTrue' /\ AloneTrue'
    BY <1>3 DEF CompInv, LoadsTrue, AloneTrue, OfProject
  <1>6. CompTypes'
    BY <1>1, <1>2, <1>4 DEF CompInv, CompTypes
  <1>7. CompKnown' /\ FlagsHeld'
    BY <1>1, <1>3 DEF CompInv, CompKnown, FlagsHeld
  <1>8. SightTrue'
    BY <1>1 DEF CompInv, SightTrue
  <1> QED BY <1>5, <1>6, <1>7, <1>8 DEF CompInv

LEMMA CompEnds ==
  ASSUME CompInv, NEW s \in Awaited,
         C!LoadFails(s) \/ C!RunFails(s) \/ C!OnResolved(s) \/ C!ResolveFails(s)
  PROVE  CompInv'
  <1>1. CASE C!LoadFails(s)
    <2> DEFINE down == {"loading", sent[s].ends}
    <2>1. busy' = busy \ down /\ sent[s].kind = "load" /\ "loading" \in down /\ sent[s].ends \in down
      BY <1>1 DEF C!LoadFails
    <2> HIDE DEF down
    <2> QED BY <1>1, <2>1, EndKept DEF C!LoadFails
  <1>2. CASE C!RunFails(s)
    <2> DEFINE down == {"analyzing"}
    <2>1. busy' = busy \ down /\ sent[s].kind = "run" /\ "analyzing" \in down
      BY <1>2 DEF C!RunFails
    <2> HIDE DEF down
    <2> QED BY <1>2, <2>1, EndKept DEF C!RunFails
  <1>3. CASE C!ResolveFails(s)
    <2> DEFINE down == {"submitting"}
    <2>1. busy' = busy \ down /\ sent[s].kind = "resolve" /\ "submitting" \in down
      BY <1>3 DEF C!ResolveFails
    <2> HIDE DEF down
    <2> QED BY <1>3, <2>1, EndKept DEF C!ResolveFails
  <1>4. CASE C!OnResolved(s)
    <2>1. /\ sent[s].kind = "resolve" /\ sent[s].project \in Workspaces /\ offered # <<>>
          /\ conflict' = C!NoConflict /\ busy' = (busy \ {"submitting"}) \cup {"loading"}
          /\ UNCHANGED <<known, workspace, assistant, settled>> /\ UNCHANGED C!server
      BY <1>4 DEF C!OnResolved, C!AnswersTo, CompInv, CompKnown
    <2>2. /\ SentTrue' /\ sent'[s].kind = "load"
          /\ \A u \in Awaited \ {s} : sent'[u].kind = sent[u].kind /\ sent'[u].ends = sent[u].ends
      BY <1>4, <2>1, LoadSent DEF C!OnResolved, SentTrue
    <2>3. CompTypes'
      BY <2>1, <2>2 DEF CompInv, CompTypes, SentTrue, C!server, C!NoConflict, Seen, OfProjects
    <2>4. CompKnown'
      BY <2>1, <2>2 DEF CompInv, CompKnown, SentTrue, C!server
    <2>5. SightTrue'
      BY <2>1, SightKept
    <2>6. FlagsHeld'
      BY <2>1, <2>2 DEF CompInv, FlagsHeld
    <2> QED BY <2>2, <2>3, <2>4, <2>5, <2>6 DEF CompInv, SentTrue
  <1> QED BY <1>1, <1>2, <1>3, <1>4

LEMMA CompStep == CompInv /\ C!CNext => CompInv'
  <1> SUFFICES ASSUME CompInv, C!CNext PROVE CompInv'
    OBVIOUS
  <1>1. CASE C!CancelConflict \/ (\E r \in C!AllRuleSets : C!SelectRuleSet(r))
               \/ \E c \in unresolved \cup workspace.conflicts : C!OpenConflict(c)
    BY <1>1, CompChooses
  <1>2. CASE \E p \in Workspaces : C!OthersChange(p)
    BY <1>2, CompOthers
  <1>3. ASSUME NEW s \in Awaited,
               C!FetchProjects(s) \/ C!ProjectsKnown(s) \/ C!ClearWorkspaceState(s) \/ C!ProjectsFail(s)
        PROVE  CompInv'
    BY <1>3, CompOpens
  <1>4. ASSUME NEW s \in Awaited, C!WorkspaceLoaded(s) PROVE CompInv'
    BY <1>4, CompShown
  <1>5. ASSUME NEW s \in Awaited, C!LoadFails(s) \/ C!RunFails(s) \/ C!OnResolved(s) \/ C!ResolveFails(s)
        PROVE  CompInv'
    BY <1>5, CompEnds
  <1>6. ASSUME NEW s \in Awaited, C!RunRuleEngine(s) \/ C!ResolveConflict(s) PROVE CompInv'
    BY <1>6, CompServes
  <1>7. ASSUME NEW s \in Awaited,
               (\E p \in Workspaces : C!SelectProject(s, p)) \/ C!HandleAnalyze(s) \/ C!HandleSubmit(s)
                 \/ C!Evaluated(s)
        PROVE  CompInv'
    BY <1>7, CompAsks
  <1>8. ASSUME NEW s \in Awaited, \E part \in sent[s].todo : C!Read(s, part) PROVE CompInv'
    BY <1>8, CompReads
  <1>9. ASSUME NEW s \in Awaited, NEW p \in Workspaces, \E r \in C!AllRuleSets : C!RunComplianceAudit(s, p, r)
        PROVE  CompInv'
    BY <1>9, CompAssists
  <1> QED BY <1>1, <1>2, <1>3, <1>4, <1>5, <1>6, <1>7, <1>8, <1>9 DEF C!CNext

LEMMA InitComp == C!CInit => CompInv
  <1> SUFFICES ASSUME C!CInit PROVE CompInv
    OBVIOUS
  <1>1. offered \in Seq(Workspaces)
    <2>1. C!SetToSeq(Workspaces) \in Seq(Workspaces)
      <3> DEFINE n == Cardinality(Workspaces)
      <3>1. IsFiniteSet(Workspaces)
        BY PagesAssumption DEF C!ComplianceAssumption, C!IsFiniteSet, IsFiniteSet
      <3>2. n \in Nat /\ ExistsBijection(1..n, Workspaces)
        BY <3>1, FS_CardinalityType
      <3>3. \E f \in [1..n -> Workspaces] : C!IsInjective(f)
        BY <3>2 DEF ExistsBijection, Bijection, Injection, Surjection, IsInjective, C!IsInjective
      <3>4. C!Cardinality(Workspaces) = n
        BY DEF C!Cardinality, Cardinality
      <3> HIDE DEF n
      <3>5. C!SetToSeq(Workspaces) \in [1..n -> Workspaces]
        BY <3>3, <3>4 DEF C!SetToSeq
      <3> QED BY <3>2, <3>5
    <2>2. <<>> \in Seq(Workspaces)
      OBVIOUS
    <2> QED BY <2>1, <2>2 DEF C!CInit
  <1>2. \A s \in Awaited : /\ sent[s] \in Asked /\ sent[s].kind \in {"none", "projects"} /\ ~sent[s].alone
                           /\ (s = 1 => sent[s].kind = "projects")
    BY IdleTyped DEF C!CInit, Asked
  <1>3. sent \in [Awaited -> Asked]
    BY <1>2 DEF C!CInit
  <1>4. /\ 1 \in Awaited /\ 0 \in Nat
    BY PagesAssumption DEF C!ComplianceAssumption
  <1>5. CompTypes
    <2>1. /\ known \in Seq(Workspaces) /\ unresolved \subseteq Workspaces \X Nat
          /\ evaluated \in [Workspaces -> Nat] /\ edition \in [Workspaces -> Nat]
      BY DEF C!CInit
    <2>2. conflict \in Seen /\ workspace \in Sight
      BY IdleTyped DEF C!CInit, C!NoConflict, Seen, OfProjects
    <2>3. busy \subseteq {"loading", "analyzing", "submitting"} /\ assistant \in BOOLEAN /\ settled \in BOOLEAN
      BY DEF C!CInit
    <2> QED BY <1>1, <1>3, <2>1, <2>2, <2>3 DEF CompTypes
  <1>6. CompKnown
    BY <1>2, IdleTyped DEF C!CInit, CompKnown
  <1>7. LoadsTrue /\ AloneTrue
    BY <1>2 DEF LoadsTrue, AloneTrue
  <1>8. SightTrue
    BY IdleTyped DEF C!CInit, SightTrue
  <1>9. FlagsHeld
    BY <1>2, <1>4 DEF C!CInit, FlagsHeld
  <1> QED BY <1>5, <1>6, <1>7, <1>8, <1>9 DEF CompInv

LEMMA CompTrue == CompInv => WorkspaceTrue
  <1> SUFFICES ASSUME CompInv PROVE WorkspaceTrue
    OBVIOUS
  <1>1. (\A s \in Awaited : sent[s] = C!Idle) => busy = {}
    BY IdleTyped DEF CompInv, CompTypes, FlagsHeld
  <1>2. SightTrue
    BY DEF CompInv
  <1> QED BY <1>1, <1>2 DEF SightTrue, WorkspaceTrue, C!WorkspaceTrue

\* The steps of the other pages change nothing of this one.
LEMMA CompSame == CompInv /\ UNCHANGED comp => CompInv'
  BY DEF comp, CompInv, CompTypes, CompKnown, LoadsTrue, AloneTrue, SightTrue, FlagsHeld, OfProject, Fresh,
     C!FetchNodes, C!LatestRequirements, C!ListConflicts

\* On the page of the compliance workspace (ComplianceTab.tsx), whatever loads, audits and
\* resolutions overlap: what is shown is of one project, and nothing waits for nothing.
THEOREM WorkspaceStaysTrue == PagesSpec => []WorkspaceTrue
  <1>1. PagesInit => CompInv
    BY InitComp DEF PagesInit
  <1>2. CompInv /\ [PagesNext]_pages => CompInv'
    <2> SUFFICES ASSUME CompInv, [PagesNext]_pages PROVE CompInv'
      OBVIOUS
    <2>1. C!CNext \/ UNCHANGED comp
      BY DEF PagesNext, OnInbox, OnNone, OnDocuments, OnDocument, OnProject, OnAudits, OnCompliance, pages
    <2> QED BY <2>1, CompStep, CompSame
  <1> QED BY <1>1, <1>2, CompTrue, PTL DEF PagesSpec

(***************************************************************************)
(* QuietSaves.  Since the form was changed or saved with nothing else      *)
(* under way, all that is written is that form with the rest as it was     *)
(* loaded, and all that is read is what has been written: it is on the     *)
(* server, or the one request there is brings it.                          *)
(***************************************************************************)
Contents == [form : Nat, rest : Nat]
Writes   == [kind : {"none", "load", "auto", "save"}, pc : {"idle", "sent", "answered", "content"},
             form : Nat, rest : Nat]
Current  == [form |-> form, rest |-> node.rest]

ViewTypes ==
    /\ data \in Contents /\ node \in Contents /\ form \in Nat /\ edits \in Nat /\ calm \in BOOLEAN
    /\ writes \in [Slots -> Writes]
    /\ \A s \in Slots : writes[s].kind = "none" => writes[s].pc = "idle"

IsWrite(s) == writes[s].kind \in {"auto", "save"}
Holds(s)   == writes[s].form = form /\ writes[s].rest = node.rest

CalmWrites == calm =>
    /\ \A s \in Slots : IsWrite(s) \/ (writes[s].kind = "load" /\ writes[s].pc = "answered") => Holds(s)
    /\ data # Current => \E s \in Slots : /\ IsWrite(s) /\ writes[s].pc = "sent"
                                          /\ \A t \in Slots \ {s} : writes[t] = V!Idle

ViewInv == ViewTypes /\ CalmWrites

LEMMA SlotsNumbers == Slots \subseteq Nat /\ StoredForms \subseteq Nat
  BY PagesAssumption DEF V!ViewAssumption

LEMMA IdleWrite ==
  /\ V!Idle \in Writes /\ V!Idle.kind = "none" /\ V!Idle.pc = "idle"
  /\ V!Load \in Writes /\ V!Load.kind = "load" /\ V!Load.pc = "sent"
  /\ V!NoNode \in Contents /\ V!NoNode.form = 0
  BY DEF V!Idle, V!Load, V!Sent, V!NoNode, V!NoForm, Writes, Contents

LEMMA SentWrite ==
  ASSUME NEW kind \in {"auto", "save"}, NEW f \in Nat, NEW rest \in Nat
  PROVE  /\ V!Sent(kind, f, rest) \in Writes /\ V!Sent(kind, f, rest).kind = kind
         /\ V!Sent(kind, f, rest).pc = "sent" /\ V!Sent(kind, f, rest).form = f
         /\ V!Sent(kind, f, rest).rest = rest
  BY DEF V!Sent, Writes

\* The lowest of the free slots is one of them.
LEMMA FreeSlot ==
  ASSUME NEW req, V!Free(req) # {}
  PROVE  V!Min(V!Free(req)) \in V!Free(req)
  <1> DEFINE S == V!Free(req)
  <1>1. S \in SUBSET Nat
    BY SlotsNumbers DEF V!Free
  <1> HIDE DEF S
  <1>2. PICK n \in S : \A m \in S : ~(m < n)
    BY <1>1, LeastNumber DEF S
  <1>3. \A m \in S : n <= m
    BY <1>1, <1>2
  <1>4. \E x \in S : \A y \in S : x <= y
    BY <1>3
  <1>5. V!Min(S) \in S
    BY <1>4 DEF V!Min
  <1> QED BY <1>5 DEF S

\* A request is put in a free slot, or nowhere.
LEMMA Puts ==
  ASSUME NEW req \in [Slots -> Writes], NEW r \in Writes, V!Free(req) # {}
  PROVE  /\ V!Put(req, r) \in [Slots -> Writes]
         /\ \E s \in Slots : /\ req[s] = V!Idle /\ V!Put(req, r)[s] = r
                             /\ \A t \in Slots \ {s} : V!Put(req, r)[t] = req[t]
  <1> DEFINE s == V!Min(V!Free(req))
  <1>1. s \in Slots /\ req[s] = V!Idle
    <2>1. s \in V!Free(req)
      BY FreeSlot
    <2> QED BY <2>1 DEF V!Free
  <1>2. V!Put(req, r) = [req EXCEPT ![s] = r]
    BY DEF V!Put
  <1> HIDE DEF s
  <1> QED BY <1>1, <1>2

\* All that req writes, or has read and not shown, is the form f with the rest.
AllHold(req, f, rest) ==
    \A s \in Slots : req[s].kind \in {"auto", "save"} \/ (req[s].kind = "load" /\ req[s].pc = "answered")
                       => req[s].form = f /\ req[s].rest = rest

Typed(req) ==
    /\ req \in [Slots -> Writes]
    /\ \A s \in Slots : req[s].kind = "none" => req[s].pc = "idle"

LEMMA AutosavePuts ==
  ASSUME NEW req, Typed(req), V!Free(req) # {}, NEW n \in Contents, NEW f \in Nat
  PROVE  /\ Typed(V!Autosave(req, n, f))
         /\ \A rest : AllHold(req, f, rest) /\ n.rest = rest => AllHold(V!Autosave(req, n, f), f, rest)
         /\ \/ V!Autosave(req, n, f) = req
            \/ \E s \in Slots : V!Free(V!Autosave(req, n, f)) = V!Free(req) \ {s}
  <1>1. CASE n = V!NoNode
    BY <1>1 DEF V!Autosave
  <1>2. CASE n # V!NoNode
    <2> DEFINE r == V!Sent("auto", f, n.rest)
               req2 == V!Put(req, r)
    <2>1. n.rest \in Nat /\ req \in [Slots -> Writes]
      BY DEF Contents, Typed
    <2>2. r \in Writes /\ r.kind = "auto" /\ r.pc = "sent" /\ r.form = f /\ r.rest = n.rest
      BY <2>1, SentWrite
    <2>3. r # V!Idle
      BY <2>2, IdleWrite
    <2>4. V!Autosave(req, n, f) = req2
      BY <1>2 DEF V!Autosave
    <2> HIDE DEF r
    <2>5. req2 \in [Slots -> Writes]
      BY <2>1, <2>2, Puts
    <2>6. PICK s \in Slots : req2[s] = r /\ \A t \in Slots \ {s} : req2[t] = req[t]
      BY <2>1, <2>2, Puts
    <2> HIDE DEF req2
    <2>7. Typed(req2)
      BY <2>2, <2>5, <2>6 DEF Typed
    <2>8. \A rest : AllHold(req, f, rest) /\ n.rest = rest => AllHold(req2, f, rest)
      BY <2>2, <2>6 DEF AllHold
    <2>9. V!Free(req2) = V!Free(req) \ {s}
      BY <2>3, <2>6 DEF V!Free
    <2> QED BY <2>4, <2>7, <2>8, <2>9
  <1> QED BY <1>1, <1>2

LEMMA TwoFree ==
  ASSUME NEW req, V!Cardinality(V!Free(req)) >= 2
  PROVE  V!Free(req) # {} /\ \A s : V!Free(req) \ {s} # {}
  <1> DEFINE S == V!Free(req)
  <1>1. Cardinality(S) >= 2
    BY DEF V!Cardinality, Cardinality
  <1> HIDE DEF S
  <1>2. S # {}
    BY <1>1, FS_EmptySet
  <1>3. \A s : S # {s}
    BY <1>1, FS_Singleton
  <1> QED BY <1>2, <1>3 DEF S

\* setNode after an answer: what it writes is what it shows.
LEMMA SetNodeWrites ==
  ASSUME ViewTypes, NEW req, Typed(req), V!Cardinality(V!Free(req)) >= 2, NEW n \in Contents, V!SetNode(req, n)
  PROVE  /\ Typed(writes') /\ node' = n /\ form' \in Nat
         /\ AllHold(req, form, n.rest) /\ (n.form # V!NoForm => n.form = form)
              => form' = form /\ AllHold(writes', form, n.rest)
  <1> DEFINE first == IF node = V!NoNode THEN V!Autosave(req, n, form) ELSE req
  <1>1. form \in Nat /\ n.form \in Nat
    BY DEF ViewTypes, Contents
  <1>2. V!Free(req) # {} /\ \A s : V!Free(req) \ {s} # {}
    BY TwoFree
  <1>3. /\ Typed(first) /\ V!Free(first) # {}
        /\ AllHold(req, form, n.rest) => AllHold(first, form, n.rest)
    <2> DEFINE auto == V!Autosave(req, n, form)
    <2>1. /\ Typed(auto)
          /\ AllHold(req, form, n.rest) => AllHold(auto, form, n.rest)
          /\ auto = req \/ \E s \in Slots : V!Free(auto) = V!Free(req) \ {s}
      BY <1>1, <1>2, AutosavePuts
    <2> HIDE DEF auto
    <2>2. V!Free(auto) # {}
      BY <1>2, <2>1
    <2>3. first = auto \/ first = req
      BY DEF auto
    <2> HIDE DEF first
    <2> QED BY <1>2, <2>1, <2>2, <2>3
  <1>4. /\ node' = n
        /\ form' = IF n.form # V!NoForm THEN n.form ELSE form
        /\ writes' = IF n.form # V!NoForm THEN V!Autosave(first, n, n.form) ELSE first
    BY DEF V!SetNode
  <1> HIDE DEF first
  <1>5. CASE n.form = V!NoForm
    BY <1>1, <1>3, <1>4, <1>5
  <1>6. CASE n.form # V!NoForm
    <2>1. /\ Typed(V!Autosave(first, n, n.form))
          /\ AllHold(first, n.form, n.rest) => AllHold(V!Autosave(first, n, n.form), n.form, n.rest)
      BY <1>1, <1>3, AutosavePuts
    <2> QED BY <1>1, <1>3, <1>4, <1>6, <2>1
  <1> QED BY <1>5, <1>6

LEMMA ViewLoaded ==
  ASSUME ViewInv, NEW s \in Slots, V!Loaded(s)
  PROVE  ViewInv'
  <1> DEFINE req == [writes EXCEPT ![s] = [V!Idle EXCEPT !.kind = "load", !.pc = "content"]]
             n   == [form |-> writes[s].form, rest |-> writes[s].rest]
  <1>1. /\ ViewTypes /\ CalmWrites /\ writes[s] \in Writes
        /\ writes[s].kind = "load" /\ writes[s].pc = "answered"
        /\ UNCHANGED <<data, opening, savedAt, edits, generated, lost, calm>>
    BY DEF ViewInv, ViewTypes, V!Loaded
  <1>2. /\ V!SetNode(req, n) /\ V!Cardinality(V!Free(writes)) >= 2
    BY DEF V!Loaded
  <1>3. /\ n \in Contents /\ n.form = writes[s].form /\ n.rest = writes[s].rest
    BY <1>1 DEF Contents, Writes
  <1> DEFINE c == [V!Idle EXCEPT !.kind = "load", !.pc = "content"]
  <1>4. c \in Writes /\ c.kind = "load" /\ c.pc = "content" /\ c # V!Idle
    BY IdleWrite DEF Writes
  <1>5. /\ req \in [Slots -> Writes] /\ req[s] = c /\ \A t \in Slots \ {s} : req[t] = writes[t]
    BY <1>1, <1>4 DEF ViewTypes
  <1>6. writes[s] # V!Idle
    BY <1>1, IdleWrite
  <1> HIDE DEF c, req, n
  <1>7. Typed(req)
    BY <1>1, <1>4, <1>5 DEF Typed, ViewTypes
  <1>8. V!Free(req) = V!Free(writes)
    BY <1>4, <1>5, <1>6 DEF V!Free
  <1>9. /\ Typed(writes') /\ node' = n /\ form' \in Nat
        /\ AllHold(req, form, n.rest) /\ (n.form # V!NoForm => n.form = form)
              => form' = form /\ AllHold(writes', form, n.rest)
    BY <1>1, <1>2, <1>3, <1>7, <1>8, SetNodeWrites
  <1>10. ViewTypes'
    BY <1>1, <1>3, <1>9 DEF ViewTypes, Typed
  <1>11. CalmWrites'
    <2> SUFFICES ASSUME calm' PROVE CalmWrites'
      BY DEF CalmWrites
    <2>1. calm /\ Holds(s) /\ data = Current
      BY <1>1, <1>6 DEF CalmWrites, IsWrite
    <2>2. AllHold(req, form, n.rest)
      BY <1>1, <1>3, <1>4, <1>5, <2>1 DEF AllHold, CalmWrites, IsWrite, Holds
    <2>3. form' = form /\ AllHold(writes', form, n.rest) /\ node'.rest = node.rest
      BY <1>3, <1>9, <2>1, <2>2 DEF Holds
    <2>4. data' = Current'
      BY <1>1, <2>1, <2>3 DEF Current
    <2>5. \A t \in Slots : IsWrite(t)' \/ (writes'[t].kind = "load" /\ writes'[t].pc = "answered") => Holds(t)'
      BY <1>3, <1>9, <2>1, <2>3 DEF AllHold, IsWrite, Holds
    <2> QED BY <2>4, <2>5 DEF CalmWrites
  <1> QED BY <1>10, <1>11 DEF ViewInv

\* A request of slot s comes to an end, or goes on as one that holds nothing.
LEMMA ViewEnds ==
  ASSUME ViewInv, NEW s \in Slots, NEW r \in Writes, r = V!Idle \/ r = V!Load,
         writes' = [writes EXCEPT ![s] = r], UNCHANGED <<data, node, form, edits>>,
         calm' = FALSE \/ (calm' = calm /\ writes[s].pc \in {"content", "answered"})
  PROVE  ViewInv'
  <1>1. /\ ViewTypes /\ CalmWrites /\ writes' \in [Slots -> Writes]
        /\ writes'[s] = r /\ \A t \in Slots \ {s} : writes'[t] = writes[t]
    BY DEF ViewInv, ViewTypes
  <1>2. calm' \in BOOLEAN /\ (calm' => calm /\ writes[s].pc \in {"content", "answered"})
    <2>1. CASE calm' = FALSE
      BY <2>1
    <2>2. CASE calm' = calm /\ writes[s].pc \in {"content", "answered"}
      <3>1. calm \in BOOLEAN
        BY <1>1 DEF ViewTypes
      <3> QED BY <2>2, <3>1
    <2> QED BY <2>1, <2>2
  <1>3. ViewTypes'
    BY <1>1, <1>2, IdleWrite DEF ViewTypes
  <1>4. CalmWrites'
    <2> SUFFICES ASSUME calm' PROVE CalmWrites'
      BY DEF CalmWrites
    <2>1. calm /\ writes[s].pc \in {"content", "answered"} /\ writes[s] # V!Idle
      BY <1>2, IdleWrite
    <2>2. data = Current
      BY <1>1, <2>1 DEF CalmWrites
    <2>3. data' = Current'
      BY <2>2 DEF Current
    <2>4. \A t \in Slots : IsWrite(t)' \/ (writes'[t].kind = "load" /\ writes'[t].pc = "answered") => Holds(t)'
      BY <1>1, <2>1, IdleWrite DEF CalmWrites, IsWrite, Holds
    <2> QED BY <2>3, <2>4 DEF CalmWrites
  <1> QED BY <1>3, <1>4 DEF ViewInv

LEMMA ViewArrives ==
  ASSUME ViewInv, NEW s \in Slots, V!Arrive(s)
  PROVE  ViewInv'
  <1>1. /\ ViewTypes /\ CalmWrites /\ writes[s] \in Writes /\ writes[s].pc = "sent"
        /\ UNCHANGED <<node, form, edits, calm>>
    BY DEF ViewInv, ViewTypes, V!Arrive
  <1>2. CASE writes[s].kind = "load"
    <2> DEFINE r == [kind |-> "load", pc |-> "answered", form |-> data.form, rest |-> data.rest]
    <2>1. writes' = [writes EXCEPT ![s] = r] /\ data' = data
      BY <1>2 DEF V!Arrive
    <2>2. r \in Writes /\ r.kind = "load" /\ r.pc = "answered" /\ r.form = data.form /\ r.rest = data.rest
      BY <1>1 DEF ViewTypes, Contents, Writes
    <2> HIDE DEF r
    <2>3. writes'[s] = r /\ \A t \in Slots \ {s} : writes'[t] = writes[t]
      BY <1>1, <2>1 DEF ViewTypes
    <2>4. ViewTypes'
      BY <1>1, <2>1, <2>2 DEF ViewTypes
    <2>5. CalmWrites'
      <3> SUFFICES ASSUME calm' PROVE CalmWrites'
        BY DEF CalmWrites
      <3>1. writes[s] # V!Idle /\ calm
        BY <1>1, IdleWrite
      <3>2. data = Current
        BY <1>1, <1>2, <3>1 DEF CalmWrites, IsWrite
      <3>3. data' = Current' /\ data.form = form /\ data.rest = node.rest
        BY <1>1, <2>1, <3>2 DEF Current
      <3>4. \A t \in Slots : IsWrite(t)' \/ (writes'[t].kind = "load" /\ writes'[t].pc = "answered") => Holds(t)'
        BY <1>1, <2>2, <2>3, <3>1, <3>3 DEF CalmWrites, IsWrite, Holds
      <3> QED BY <3>3, <3>4 DEF CalmWrites
    <2> QED BY <2>4, <2>5 DEF ViewInv
  <1>3. CASE writes[s].kind # "load"
    <2>1. /\ writes' = [writes EXCEPT ![s].pc = "answered"]
          /\ data' = [form |-> writes[s].form, rest |-> writes[s].rest]
      BY <1>3 DEF V!Arrive
    <2>2. writes'[s] = [writes[s] EXCEPT !.pc = "answered"] /\ \A t \in Slots \ {s} : writes'[t] = writes[t]
      BY <1>1, <2>1 DEF ViewTypes
    <2>3. /\ writes'[s] \in Writes /\ writes'[s].kind = writes[s].kind /\ writes'[s].pc = "answered"
          /\ writes'[s].form = writes[s].form /\ writes'[s].rest = writes[s].rest
      BY <1>1, <2>2 DEF Writes
    <2>4. writes[s].kind \in {"auto", "save"} /\ data' \in Contents
      BY <1>1, <1>3, <2>1 DEF ViewTypes, Writes, Contents
    <2>5. ViewTypes'
      BY <1>1, <2>1, <2>2, <2>3, <2>4 DEF ViewTypes
    <2>6. CalmWrites'
      <3> SUFFICES ASSUME calm' PROVE CalmWrites'
        BY DEF CalmWrites
      <3>1. calm /\ Holds(s)
        BY <1>1, <2>4 DEF CalmWrites, IsWrite
      <3>2. data' = Current'
        BY <1>1, <2>1, <3>1 DEF Current, Holds
      <3>3. \A t \in Slots : IsWrite(t)' \/ (writes'[t].kind = "load" /\ writes'[t].pc = "answered") => Holds(t)'
        BY <1>1, <2>2, <2>3, <2>4, <3>1 DEF CalmWrites, IsWrite, Holds
      <3> QED BY <3>2, <3>3 DEF CalmWrites
    <2> QED BY <2>5, <2>6 DEF ViewInv
  <1> QED BY <1>2, <1>3

\* The form is sent: by itself it is all there is under way.
LEMMA ViewSends ==
  ASSUME ViewTypes, NEW kind \in {"auto", "save"}, form' \in Nat, edits' \in Nat, UNCHANGED <<data, node>>,
         V!Free(writes) # {}, writes' = V!Put(writes, V!Sent(kind, form', node.rest)),
         calm' \in BOOLEAN, calm' => V!Quiet
  PROVE  ViewInv'
  <1> DEFINE r == V!Sent(kind, form', node.rest)
  <1>1. node.rest \in Nat /\ writes \in [Slots -> Writes]
    BY DEF ViewTypes, Contents
  <1>2. r \in Writes /\ r.kind = kind /\ r.pc = "sent" /\ r.form = form' /\ r.rest = node.rest
    BY <1>1, SentWrite
  <1> HIDE DEF r
  <1>3. writes' \in [Slots -> Writes]
    BY <1>1, <1>2, Puts DEF r
  <1>4. PICK s \in Slots : writes'[s] = r /\ \A t \in Slots \ {s} : writes'[t] = writes[t]
    BY <1>1, <1>2, Puts DEF r
  <1>5. ViewTypes'
    BY <1>2, <1>3, <1>4 DEF ViewTypes
  <1>6. CalmWrites'
    <2> SUFFICES ASSUME calm' PROVE CalmWrites'
      BY DEF CalmWrites
    <2>1. \A t \in Slots \ {s} : writes'[t] = V!Idle
      BY <1>4 DEF V!Quiet, V!Free
    <2>2. IsWrite(s)' /\ writes'[s].pc = "sent" /\ Holds(s)'
      BY <1>2, <1>4 DEF IsWrite, Holds
    <2>3. \A t \in Slots : IsWrite(t)' \/ (writes'[t].kind = "load" /\ writes'[t].pc = "answered") => Holds(t)'
      BY <2>1, <2>2, IdleWrite DEF IsWrite, Holds
    <2> QED BY <2>1, <2>2, <2>3, IdleWrite DEF CalmWrites, IsWrite
  <1> QED BY <1>5, <1>6 DEF ViewInv

LEMMA ViewEdited ==
  ASSUME ViewInv, V!Edit
  PROVE  ViewInv'
  <1>1. /\ ViewTypes /\ edits' = edits + 1 /\ form' = V!Edited(edits') /\ V!Free(writes) # {}
        /\ writes' = V!Autosave(writes, node, form') /\ UNCHANGED <<data, node>>
    BY DEF V!Edit, ViewInv
  <1>2. edits' \in Nat /\ form' \in Nat
    BY <1>1 DEF ViewTypes, V!Edited
  <1> DEFINE q == V!Quiet
             there == node # V!NoNode
  <1>3. calm' = (q /\ there) /\ q \in BOOLEAN /\ there \in BOOLEAN
    BY DEF V!Edit, V!Quiet
  <1>4. calm' \in BOOLEAN /\ (calm' => q /\ there)
    <2> HIDE DEF q, there
    <2> QED BY <1>3
  <1>5. CASE there
    <2>1. writes' = V!Put(writes, V!Sent("auto", form', node.rest))
      BY <1>1, <1>5 DEF V!Autosave
    <2> QED BY <1>1, <1>2, <1>4, <2>1, ViewSends
  <1>6. CASE ~there
    <2>1. writes' = writes /\ ~calm'
      BY <1>1, <1>4, <1>6 DEF V!Autosave
    <2> QED BY <1>1, <1>2, <1>4, <2>1 DEF ViewInv, ViewTypes, CalmWrites
  <1> QED BY <1>5, <1>6

LEMMA ViewStep == ViewInv /\ V!VNext => ViewInv'
  <1> SUFFICES ASSUME ViewInv, V!VNext PROVE ViewInv'
    OBVIOUS
  <1>0. ViewTypes /\ CalmWrites
    BY DEF ViewInv
  <1>1. ASSUME NEW s \in Slots, V!Arrive(s) PROVE ViewInv'
    BY <1>1, ViewArrives
  <1>2. ASSUME NEW s \in Slots, V!Loaded(s) PROVE ViewInv'
    BY <1>2, ViewLoaded
  <1>3. ASSUME NEW s \in Slots, V!LoadEnds(s) \/ V!Autosaved(s) \/ V!SavedToServer(s) PROVE ViewInv'
    <2>1. /\ writes[s].pc \in {"content", "answered"} /\ UNCHANGED <<data, node, form, edits, calm>>
          /\ writes' = [writes EXCEPT ![s] = V!Idle] \/ writes' = [writes EXCEPT ![s] = V!Load]
      BY <1>3 DEF V!LoadEnds, V!Autosaved, V!SavedToServer
    <2> QED BY <2>1, IdleWrite, ViewEnds
  <1>4. ASSUME NEW s \in Slots, V!RequestFails(s) PROVE ViewInv'
    <2>1. calm' = FALSE /\ UNCHANGED <<data, node, form, edits>> /\ writes' = [writes EXCEPT ![s] = V!Idle]
      BY <1>4 DEF V!RequestFails
    <2> QED BY <2>1, IdleWrite, ViewEnds
  <1>5. CASE V!FillField \/ V!FillRemediationForm \/ V!SetRemediationField
    BY <1>5, ViewEdited DEF V!FillField, V!FillRemediationForm, V!SetRemediationField
  <1>6. CASE V!SaveToServer
    <2>1. /\ V!Free(writes) # {} /\ writes' = V!Put(writes, V!Sent("save", form', node.rest))
          /\ calm' = V!Quiet /\ UNCHANGED <<data, node, form, edits>>
      BY <1>6 DEF V!SaveToServer
    <2>2. V!Quiet \in BOOLEAN
      BY DEF V!Quiet
    <2>3. calm' \in BOOLEAN /\ (calm' => V!Quiet) /\ form' \in Nat /\ edits' \in Nat
      BY <1>0, <2>1, <2>2 DEF ViewTypes
    <2> QED BY <1>0, <2>1, <2>3, ViewSends
  <1>7. CASE V!Generate
    <2>1. /\ data' = [form |-> V!NoForm, rest |-> data.rest + 1] /\ calm' = FALSE
          /\ UNCHANGED <<node, form, writes, edits>>
      BY <1>7 DEF V!Generate
    <2>2. data' \in Contents
      BY <1>0, <2>1 DEF ViewTypes, Contents, V!NoForm
    <2> QED BY <1>0, <2>1, <2>2 DEF ViewInv, ViewTypes, CalmWrites
  <1> QED BY <1>1, <1>2, <1>3, <1>4, <1>5, <1>6, <1>7 DEF V!VNext

LEMMA InitView == V!VInit => ViewInv
  <1> SUFFICES ASSUME V!VInit PROVE ViewInv
    OBVIOUS
  <1> DEFINE none == [s \in Slots |-> V!Idle]
  <1>1. none \in [Slots -> Writes] /\ writes = V!Put(none, V!Load)
    BY IdleWrite DEF V!VInit
  <1>2. ViewTypes
    <2>1. data \in Contents
      <3>1. data \in [form : StoredForms, rest : {1}]
        BY DEF V!VInit
      <3>2. data.form \in Nat /\ data.rest \in Nat /\ data = [form |-> data.form, rest |-> data.rest]
        <4>1. data.form \in StoredForms /\ data.rest \in {1} /\ data = [form |-> data.form, rest |-> data.rest]
          BY <3>1
        <4> QED BY <4>1, SlotsNumbers
      <3> QED BY <3>2 DEF Contents
    <2>2. Typed(writes)
      <3>1. CASE V!Free(none) # {}
        <4>1. writes \in [Slots -> Writes]
          BY <1>1, <3>1, IdleWrite, Puts
        <4>2. \E s \in Slots : writes[s] = V!Load /\ \A t \in Slots \ {s} : writes[t] = none[t]
          BY <1>1, <3>1, IdleWrite, Puts
        <4> QED BY <4>1, <4>2, IdleWrite DEF Typed
      <3>2. CASE V!Free(none) = {}
        <4>1. Slots = {}
          BY <3>2 DEF V!Free
        <4>2. writes = none
          BY <1>1, <4>1 DEF V!Put
        <4> QED BY <1>1, <4>1, <4>2 DEF Typed
      <3> QED BY <3>1, <3>2
    <2> QED BY <2>1, <2>2, IdleWrite DEF V!VInit, ViewTypes, Typed, V!Blank
  <1>3. CalmWrites
    BY DEF V!VInit, CalmWrites
  <1> QED BY <1>2, <1>3 DEF ViewInv

\* In the view of a document (DocumentDetailView.tsx), a change of the form, or a save, that was
\* made with nothing else under way is on the server when all requests are answered.
THEOREM QuietlySaved == PagesSpec => []QuietSaves
  <1>1. PagesInit => ViewInv
    BY InitView DEF PagesInit
  <1>2. ViewInv /\ [PagesNext]_pages => ViewInv'
    <2> SUFFICES ASSUME ViewInv, [PagesNext]_pages PROVE ViewInv'
      OBVIOUS
    <2>1. V!VNext \/ UNCHANGED doc
      BY DEF PagesNext, OnInbox, OnNone, OnDocuments, OnDocument, OnProject, OnAudits, OnCompliance, pages
    <2>2. UNCHANGED doc => ViewInv'
      BY DEF doc, ViewInv, ViewTypes, CalmWrites, IsWrite, Holds, Current
    <2> QED BY <2>1, <2>2, ViewStep
  <1>3. ViewInv => QuietSaves
    <2> SUFFICES ASSUME ViewInv, calm, V!Quiet PROVE data = Current
      BY DEF QuietSaves, V!QuietSaves, Current
    <2>1. \A s \in Slots : writes[s] = V!Idle
      BY DEF V!Quiet, V!Free
    <2> QED BY <2>1, IdleWrite DEF ViewInv, CalmWrites, IsWrite
  <1> QED BY <1>1, <1>2, <1>3, PTL DEF PagesSpec


(***************************************************************************)
(* PageAgrees.  As long as the operations of the page do not overlap,      *)
(* nothing fails and nobody else writes, the page is in one of three       *)
(* phases: its project is shown or on its way, and every answer there is   *)
(* is what the server has; or one row is being changed, ahead of the       *)
(* server or by itself; or one other change is under way, after which the  *)
(* page is loaded anew.  The same goes for the report.                     *)
(***************************************************************************)
IsCall(r) ==
    /\ r \in [kind : {r.kind}, pc : {r.pc}, for : {r.for}, nodes : {r.nodes}, tasks : {r.tasks},
              id : {r.id}, status : {r.status}, previous : {r.previous}, done : {r.done}]
    /\ r.done \subseteq P!Report

CallTypes ==
    /\ calls = [s \in Slots |-> calls[s]]
    /\ \A s \in Slots : IsCall(calls[s])
    /\ nodes # P!None => nodes = [n \in DOMAIN nodes |-> nodes[n]]

AloneCall(s) == \A t \in Slots \ {s} : calls[t] = P!Idle

ProjectShown ==
    /\ project.tasks = tasks
    /\ nodes # P!None => components = nodes /\ projectNodes = nodes

Loading ==
    /\ \A s \in Slots : /\ calls[s].kind \notin {"component", "add", "task"}
                        /\ calls[s].kind \in {"project", "nodes"} /\ calls[s].pc = "answered"
                             => calls[s].nodes = nodes /\ calls[s].tasks = tasks
    /\ ProjectShown \/ \E s \in Slots : calls[s].kind = "project"

\* The row is ahead of the server, or the nodes of the page are behind it.
RowChanged(r) ==
    \/ /\ r.pc \in {"sent", "refused"} /\ projectNodes = nodes
       /\ r.id \in DOMAIN nodes /\ r.previous = nodes[r.id]
       /\ components = [nodes EXCEPT ![r.id] = r.status]
    \/ /\ r.pc = "answered" /\ components = nodes
       /\ r.id \in DOMAIN projectNodes /\ nodes = [projectNodes EXCEPT ![r.id] = r.status]

RowChanging(s) ==
    /\ calls[s].kind = "component" /\ AloneCall(s)
    /\ project.tasks = tasks /\ (nodes # P!None => RowChanged(calls[s]))

Changing(s) == calls[s].kind \in {"add", "task"} /\ AloneCall(s)

ProjectPhase == "project" \in undisturbed =>
    Loading \/ \E s \in Slots : RowChanging(s) \/ Changing(s)

Reporting ==
    /\ \A s \in Slots : /\ calls[s].kind # "run"
                        /\ calls[s].kind = "rules" => \A part \in calls[s].done : calls[s].nodes[part] = runs
    /\ \/ requirements = runs /\ conflicts = runs
       \/ \E s \in Slots : calls[s].kind = "rules"

ReportPhase == "report" \in undisturbed =>
    Reporting \/ \E s \in Slots : calls[s].kind = "run" /\ AloneCall(s)

PageInv == CallTypes /\ ProjectPhase /\ ReportPhase

LEMMA IdleCall ==
  /\ IsCall(P!Idle) /\ P!Idle.kind = "none"
  /\ \A kind, for : /\ IsCall(P!Sent(kind, for)) /\ P!Sent(kind, for).kind = kind
                    /\ P!Sent(kind, for).pc = "sent" /\ P!Sent(kind, for).done = {}
  <1>1. IsCall(P!Idle) /\ P!Idle.kind = "none"
    BY DEF P!Idle, IsCall
  <1>2. ASSUME NEW kind, NEW for
        PROVE  /\ IsCall(P!Sent(kind, for)) /\ P!Sent(kind, for).kind = kind
               /\ P!Sent(kind, for).pc = "sent" /\ P!Sent(kind, for).done = {}
    BY DEF P!Idle, P!Sent, IsCall
  <1> QED BY <1>1, <1>2

\* A call takes the place of another.
LEMMA CallReplaced ==
  ASSUME calls = [s \in Slots |-> calls[s]], \A s \in Slots : IsCall(calls[s]),
         NEW s \in Slots, NEW r, IsCall(r), calls' = [calls EXCEPT ![s] = r]
  PROVE  /\ calls' = [t \in Slots |-> calls'[t]] /\ \A t \in Slots : IsCall(calls'[t])
         /\ calls'[s] = r /\ \A t \in Slots \ {s} : calls'[t] = calls[t]
  BY DEF IsCall

LEMMA FreeCall ==
  ASSUME P!Free # {}
  PROVE  P!Min(P!Free) \in Slots /\ calls[P!Min(P!Free)] = P!Idle
  <1> DEFINE S == P!Free
  <1>1. S \in SUBSET Nat
    BY SlotsNumbers DEF P!Free
  <1> HIDE DEF S
  <1>2. PICK n \in S : \A m \in S : ~(m < n)
    BY <1>1, LeastNumber DEF S
  <1>3. \E x \in S : \A y \in S : x <= y
    BY <1>1, <1>2
  <1>4. P!Min(S) \in S
    BY <1>3 DEF P!Min
  <1> QED BY <1>4 DEF S, P!Free

\* Nothing is claimed of a page that was disturbed.
LEMMA Disturbed == CallTypes /\ undisturbed = {} => PageInv
  BY DEF PageInv, ProjectPhase, ReportPhase

\* Once nothing is under way the page is shown, and so is the report.
LEMMA QuietPage ==
  ASSUME PageInv, P!Quiet
  PROVE  /\ \A s \in Slots : calls[s] = P!Idle
         /\ "project" \in undisturbed => ProjectShown
         /\ "report" \in undisturbed => requirements = runs /\ conflicts = runs
  <1>1. \A s \in Slots : calls[s] = P!Idle
    BY DEF P!Quiet, P!Free
  <1>2. \A s \in Slots : calls[s].kind = "none"
    BY <1>1, IdleCall
  <1>3. "project" \in undisturbed => ProjectShown
    BY <1>2 DEF PageInv, ProjectPhase, Loading, RowChanging, Changing
  <1>4. "report" \in undisturbed => requirements = runs /\ conflicts = runs
    BY <1>2 DEF PageInv, ReportPhase, Reporting
  <1> QED BY <1>1, <1>3, <1>4

LEMMA CallsTyped ==
  ASSUME CallTypes, NEW s \in Slots, NEW r, IsCall(r), calls' = [calls EXCEPT ![s] = r], nodes' = nodes
  PROVE  /\ CallTypes' /\ calls'[s] = r /\ \A t \in Slots \ {s} : calls'[t] = calls[t]
  <1>1. /\ calls' = [t \in Slots |-> calls'[t]] /\ \A t \in Slots : IsCall(calls'[t])
        /\ calls'[s] = r /\ \A t \in Slots \ {s} : calls'[t] = calls[t]
    BY CallReplaced DEF CallTypes
  <1> QED BY <1>1 DEF CallTypes, IsCall

LEMMA OnlyCall ==
  ASSUME NEW s \in Slots, NEW t \in Slots, calls[s].kind # "none", AloneCall(t)
  PROVE  s = t
  BY IdleCall DEF AloneCall

\* What has nothing to do with the report leaves it as it is.
LEMMA ReportKept ==
  ASSUME ReportPhase, NEW s \in Slots, calls[s].kind \notin {"none", "rules", "run"},
         UNCHANGED <<requirements, conflicts, runs, undisturbed>>,
         \A t \in Slots : \/ calls'[t] = calls[t]
                          \/ calls[t].kind \notin {"rules", "run"} /\ calls'[t].kind \notin {"rules", "run"}
  PROVE  ReportPhase'
  <1> SUFFICES ASSUME "report" \in undisturbed PROVE Reporting'
    BY DEF ReportPhase
  <1>1. Reporting
    BY OnlyCall DEF ReportPhase
  <1>2. ASSUME NEW t \in Slots
        PROVE  /\ calls'[t].kind # "run"
               /\ calls'[t].kind = "rules" => \A part \in calls'[t].done : calls'[t].nodes[part] = runs'
    BY <1>1 DEF Reporting
  <1>3. ASSUME NEW t \in Slots, calls[t].kind = "rules" PROVE calls'[t].kind = "rules"
    BY <1>3
  <1> QED BY <1>1, <1>2, <1>3 DEF Reporting

\* And what has to do with the report leaves the project as it is.
LEMMA ProjectKept ==
  ASSUME ProjectPhase, NEW s \in Slots, calls[s].kind \in {"rules", "run"},
         calls'[s].kind \in {"none", "rules", "run"}, \A t \in Slots \ {s} : calls'[t] = calls[t],
         UNCHANGED <<nodes, tasks, project, components, projectNodes, undisturbed>>
  PROVE  ProjectPhase'
  <1> SUFFICES ASSUME "project" \in undisturbed PROVE Loading'
    BY DEF ProjectPhase
  <1>1. Loading
    BY OnlyCall DEF ProjectPhase, RowChanging, Changing
  <1>2. ASSUME NEW t \in Slots
        PROVE  /\ calls'[t].kind \notin {"component", "add", "task"}
               /\ calls'[t].kind \in {"project", "nodes"} /\ calls'[t].pc = "answered"
                    => calls'[t].nodes = nodes' /\ calls'[t].tasks = tasks'
    <2>1. CASE t = s
      BY <2>1
    <2>2. CASE t # s
      BY <1>1, <2>2 DEF Loading
    <2> QED BY <2>1, <2>2
  <1>3. ASSUME NEW t \in Slots, calls[t].kind = "project" PROVE calls'[t].kind = "project"
    BY <1>3
  <1>4. ProjectShown => ProjectShown'
    BY DEF ProjectShown
  <1> QED BY <1>1, <1>2, <1>3, <1>4 DEF Loading

LEMMA PageRead ==
  ASSUME PageInv, NEW s \in Slots, P!ReadServer(s)
  PROVE  PageInv'
  <1> DEFINE r == [calls[s] EXCEPT !.pc = "answered", !.nodes = nodes, !.tasks = tasks]
  <1>1. /\ CallTypes /\ ProjectPhase /\ ReportPhase /\ calls[s].kind \in {"project", "nodes"} /\ IsCall(calls[s])
        /\ UNCHANGED <<nodes, tasks, runs, project, components, projectNodes, requirements, conflicts, undisturbed>>
    BY DEF PageInv, CallTypes, P!ReadServer, P!Server, P!Page
  <1>2. calls' = [calls EXCEPT ![s] = r]
    BY <1>1 DEF P!ReadServer, IsCall
  <1>3. IsCall(r) /\ r.kind = calls[s].kind /\ r.pc = "answered" /\ r.nodes = nodes /\ r.tasks = tasks
    BY <1>1 DEF IsCall
  <1> HIDE DEF r
  <1>4. CallTypes' /\ calls'[s] = r /\ \A t \in Slots \ {s} : calls'[t] = calls[t]
    BY <1>1, <1>2, <1>3, CallsTyped
  <1>5. ReportPhase'
    BY <1>1, <1>3, <1>4, ReportKept
  <1>6. ProjectPhase'
    <2> SUFFICES ASSUME "project" \in undisturbed PROVE Loading'
      BY <1>1 DEF ProjectPhase
    <2>1. Loading
      BY <1>1, OnlyCall DEF ProjectPhase, RowChanging, Changing
    <2>2. ProjectShown => ProjectShown'
      BY <1>1 DEF ProjectShown
    <2> QED BY <1>1, <1>3, <1>4, <2>1, <2>2 DEF Loading
  <1> QED BY <1>4, <1>5, <1>6 DEF PageInv

\* The page is shown as the server has it once the project has come.
LEMMA PageLoaded ==
  ASSUME PageInv, NEW s \in Slots, P!ProjectLoaded(s) \/ P!NodesLoaded(s)
  PROVE  PageInv'
  <1>1. /\ CallTypes /\ ProjectPhase /\ ReportPhase /\ calls[s].kind \in {"project", "nodes"} /\ calls[s].pc = "answered"
        /\ UNCHANGED <<nodes, tasks, runs, requirements, conflicts, undisturbed>>
        /\ calls' = [calls EXCEPT ![s] = P!Idle]
    BY DEF PageInv, P!ProjectLoaded, P!NodesLoaded, P!Server
  <1>2. CallTypes' /\ calls'[s] = P!Idle /\ \A t \in Slots \ {s} : calls'[t] = calls[t]
    BY <1>1, IdleCall, CallsTyped
  <1>3. ReportPhase'
    BY <1>1, <1>2, IdleCall, ReportKept
  <1>4. ProjectPhase'
    <2> SUFFICES ASSUME "project" \in undisturbed PROVE Loading'
      BY <1>1 DEF ProjectPhase
    <2>1. Loading
      BY <1>1, OnlyCall DEF ProjectPhase, RowChanging, Changing
    <2>2. calls[s].nodes = nodes /\ calls[s].tasks = tasks
      BY <1>1, <2>1 DEF Loading
    <2>3. ProjectShown' \/ \E t \in Slots \ {s} : calls[t].kind = "project"
      <3>1. CASE P!ProjectLoaded(s)
        <4>1. /\ project' = [nodes |-> nodes, tasks |-> tasks, found |-> TRUE]
              /\ nodes # P!None => components' = nodes /\ projectNodes' = nodes
          BY <2>2, <3>1 DEF P!ProjectLoaded, P!ShowNodes
        <4> QED BY <1>1, <4>1 DEF ProjectShown
      <3>2. CASE P!NodesLoaded(s)
        <4>1. /\ project' = project /\ calls[s].kind = "nodes"
              /\ nodes # P!None => components' = nodes /\ projectNodes' = nodes
          BY <2>2, <3>2 DEF P!NodesLoaded
        <4> QED BY <1>1, <2>1, <4>1 DEF Loading, ProjectShown
      <3> QED BY <3>1, <3>2
    <2> QED BY <1>1, <1>2, <2>1, <2>3, IdleCall DEF Loading
  <1> QED BY <1>2, <1>3, <1>4 DEF PageInv

\* The server answers for a row, and the page follows it or takes the row back.
LEMMA RowPatched ==
  ASSUME PageInv, NEW s \in Slots, P!PatchNode(s)
  PROVE  PageInv'
  <1> DEFINE c == calls[s]
             accepted == c.status \in P!NodeStatus /\ c.id \in DOMAIN nodes
             pc == IF accepted THEN "answered" ELSE "refused"
             r == [c EXCEPT !.pc = pc]
  <1>1. /\ CallTypes /\ ProjectPhase /\ ReportPhase /\ IsCall(c) /\ c.pc = "sent" /\ c.kind = "component"
        /\ nodes' = IF accepted THEN [nodes EXCEPT ![c.id] = c.status] ELSE nodes
        /\ UNCHANGED <<tasks, runs, project, components, projectNodes, requirements, conflicts, undisturbed>>
    BY DEF PageInv, CallTypes, P!PatchNode, P!Page
  <1>2. calls' = [calls EXCEPT ![s] = r]
    <2>1. calls' = [calls EXCEPT ![s].pc = pc]
      BY DEF P!PatchNode
    <2> QED BY <1>1, <2>1 DEF IsCall
  <1>3. /\ IsCall(r) /\ r.kind = c.kind /\ r.pc = pc
        /\ r.id = c.id /\ r.status = c.status /\ r.previous = c.previous
    BY <1>1 DEF IsCall
  <1> HIDE DEF r
  <1>4. /\ calls' = [t \in Slots |-> calls'[t]] /\ \A t \in Slots : IsCall(calls'[t])
        /\ calls'[s] = r /\ \A t \in Slots \ {s} : calls'[t] = calls[t]
    BY <1>1, <1>2, <1>3, CallReplaced DEF CallTypes
  <1>5. DOMAIN P!None = {}
    BY DEF P!None
  <1>6. nodes' # P!None => nodes # P!None
    BY <1>1, <1>5
  <1>7. CallTypes'
    BY <1>1, <1>4, <1>6 DEF CallTypes
  <1>8. ReportPhase'
    BY <1>1, <1>3, <1>4, ReportKept
  <1>9. ProjectPhase'
    <2> SUFFICES ASSUME "project" \in undisturbed PROVE RowChanging(s)'
      BY <1>1 DEF ProjectPhase
    <2>1. RowChanging(s)
      BY <1>1, OnlyCall DEF ProjectPhase, Loading, RowChanging, Changing
    <2>2. AloneCall(s)'
      BY <1>4, <2>1 DEF RowChanging, AloneCall
    <2>3. ASSUME nodes' # P!None PROVE RowChanged(calls[s])'
      <3>1. /\ projectNodes = nodes /\ c.id \in DOMAIN nodes /\ c.previous = nodes[c.id]
            /\ components = [nodes EXCEPT ![c.id] = c.status]
        BY <1>1, <1>6, <2>1, <2>3 DEF RowChanging, RowChanged
      <3>2. CASE accepted
        BY <1>1, <1>3, <1>4, <3>1, <3>2 DEF RowChanged
      <3>3. CASE ~accepted
        BY <1>1, <1>3, <1>4, <3>1, <3>3 DEF RowChanged
      <3> QED BY <3>2, <3>3
    <2> QED BY <1>1, <1>3, <1>4, <2>1, <2>2, <2>3 DEF RowChanging
  <1> QED BY <1>7, <1>8, <1>9 DEF PageInv

LEMMA RowSettled ==
  ASSUME PageInv, NEW s \in Slots, P!ComponentChanged(s) \/ (P!ComponentRefused(s) /\ calls[s].pc = "refused" /\ undisturbed' = undisturbed)
  PROVE  PageInv'
  <1>1. /\ CallTypes /\ ProjectPhase /\ ReportPhase /\ calls[s].kind = "component" /\ calls[s].pc \in {"answered", "refused"}
        /\ UNCHANGED <<nodes, tasks, runs, project, requirements, conflicts, undisturbed>>
        /\ calls' = [calls EXCEPT ![s] = P!Idle]
    BY DEF PageInv, P!ComponentChanged, P!ComponentRefused, P!Server
  <1>2. CallTypes' /\ calls'[s] = P!Idle /\ \A t \in Slots \ {s} : calls'[t] = calls[t]
    BY <1>1, IdleCall, CallsTyped
  <1>3. ReportPhase'
    BY <1>1, <1>2, IdleCall, ReportKept
  <1>4. ProjectPhase'
    <2> SUFFICES ASSUME "project" \in undisturbed PROVE Loading'
      BY <1>1 DEF ProjectPhase
    <2>1. RowChanging(s)
      BY <1>1, OnlyCall DEF ProjectPhase, Loading, RowChanging, Changing
    <2>2. \A t \in Slots : calls'[t].kind = "none"
      BY <1>2, <2>1, IdleCall DEF RowChanging, AloneCall
    <2>3. ASSUME nodes # P!None PROVE components' = nodes /\ projectNodes' = nodes
      <3> DEFINE c == calls[s]
      <3>1. RowChanged(c) /\ nodes = [n \in DOMAIN nodes |-> nodes[n]]
        BY <1>1, <2>1, <2>3 DEF RowChanging, CallTypes
      <3>2. CASE P!ComponentChanged(s)
        <4>1. /\ components = nodes /\ nodes = [projectNodes EXCEPT ![c.id] = c.status] /\ c.id \in DOMAIN projectNodes
              /\ components' = components /\ projectNodes' = P!WithStatus(projectNodes, c.id, c.status)
          BY <3>1, <3>2 DEF P!ComponentChanged, RowChanged
        <4> QED BY <4>1 DEF P!WithStatus
      <3>3. CASE P!ComponentRefused(s) /\ c.pc = "refused"
        <4>1. /\ projectNodes = nodes /\ c.id \in DOMAIN nodes /\ c.previous = nodes[c.id]
              /\ components = [nodes EXCEPT ![c.id] = c.status]
              /\ projectNodes' = projectNodes /\ components' = P!WithStatus(components, c.id, c.previous)
          BY <3>1, <3>3 DEF P!ComponentRefused, RowChanged
        <4>2. components' = [components EXCEPT ![c.id] = nodes[c.id]]
          BY <3>1, <4>1 DEF P!WithStatus
        <4> HIDE DEF c
        <4>3. components' = nodes
          BY <3>1, <4>1, <4>2
        <4> QED BY <4>1, <4>3
      <3> QED BY <3>2, <3>3
    <2>4. ProjectShown'
      BY <1>1, <2>1, <2>3 DEF ProjectShown, RowChanging
    <2> QED BY <2>2, <2>4 DEF Loading
  <1> QED BY <1>2, <1>3, <1>4 DEF PageInv

\* A node more keeps the nodes a function.
LEMMA NodesTyped ==
  ASSUME P!CreateNode
  PROVE  nodes' = [n \in DOMAIN nodes' |-> nodes'[n]]
  BY DEF P!CreateNode

LEMMA PageChanges ==
  ASSUME PageInv, NEW s \in Slots, P!Change(s)
  PROVE  PageInv'
  <1> DEFINE r == [calls[s] EXCEPT !.pc = "answered"]
  <1>1. /\ CallTypes /\ ProjectPhase /\ ReportPhase /\ IsCall(calls[s]) /\ calls[s].kind \in {"add", "task", "run"}
        /\ UNCHANGED <<project, components, projectNodes, requirements, conflicts, undisturbed>>
        /\ calls' = [calls EXCEPT ![s].pc = "answered"]
    BY DEF PageInv, CallTypes, P!Change, P!Page
  <1>2. calls' = [calls EXCEPT ![s] = r]
    BY <1>1 DEF IsCall
  <1>3. IsCall(r) /\ r.kind = calls[s].kind
    BY <1>1 DEF IsCall
  <1> HIDE DEF r
  <1>4. /\ calls' = [t \in Slots |-> calls'[t]] /\ \A t \in Slots : IsCall(calls'[t])
        /\ calls'[s] = r /\ \A t \in Slots \ {s} : calls'[t] = calls[t]
    BY <1>1, <1>2, <1>3, CallReplaced DEF CallTypes
  <1>5. CallTypes'
    <2>1. nodes' = nodes \/ P!CreateNode
      BY DEF P!Change
    <2> QED BY <1>1, <1>4, <2>1, NodesTyped DEF CallTypes
  <1>6. CASE calls[s].kind = "run"
    <2>1. nodes' = nodes /\ tasks' = tasks
      BY <1>6 DEF P!Change
    <2>2. ProjectPhase'
      BY <1>1, <1>3, <1>4, <1>6, <2>1, ProjectKept
    <2>3. ReportPhase'
      <3> SUFFICES ASSUME "report" \in undisturbed PROVE (calls[s].kind = "run" /\ AloneCall(s))'
        BY <1>1 DEF ReportPhase
      <3>1. AloneCall(s)
        BY <1>1, <1>6, OnlyCall DEF ReportPhase, Reporting
      <3> QED BY <1>3, <1>4, <1>6, <3>1 DEF AloneCall
    <2> QED BY <1>5, <2>2, <2>3 DEF PageInv
  <1>7. CASE calls[s].kind # "run"
    <2>1. runs' = runs
      BY <1>7 DEF P!Change
    <2>2. ReportPhase'
      BY <1>1, <1>3, <1>4, <1>7, <2>1, ReportKept
    <2>3. ProjectPhase'
      <3> SUFFICES ASSUME "project" \in undisturbed PROVE Changing(s)'
        BY <1>1 DEF ProjectPhase
      <3>1. Changing(s)
        BY <1>1, <1>7, OnlyCall DEF ProjectPhase, Loading, RowChanging, Changing
      <3> QED BY <1>3, <1>4, <3>1 DEF Changing, AloneCall
    <2> QED BY <1>5, <2>2, <2>3 DEF PageInv
  <1> QED BY <1>6, <1>7

\* After a change the project is on its way.
LEMMA PageChanged ==
  ASSUME PageInv, NEW s \in Slots, P!Changed(s)
  PROVE  PageInv'
  <1> DEFINE button == IF calls[s].kind = "task" THEN calls[s].for ELSE "add"
             m == P!Min(P!Free)
             r == P!Sent("project", button)
             q == P!Sent("nodes", "add")
             mid == [calls EXCEPT ![s] = r]
  <1>1. /\ CallTypes /\ ProjectPhase /\ ReportPhase /\ calls[s].kind \in {"add", "task"}
        /\ UNCHANGED <<nodes, tasks, runs, requirements, conflicts, undisturbed>>
        /\ calls[s].kind = "add" => P!Free # {}
    BY DEF PageInv, P!Changed, P!Server
  <1>2. /\ IsCall(r) /\ r.kind = "project" /\ r.pc = "sent"
        /\ IsCall(q) /\ q.kind = "nodes" /\ q.pc = "sent"
    BY IdleCall
  <1>3. \/ calls' = mid
        \/ calls' = [mid EXCEPT ![m] = q] /\ m \in Slots \ {s} /\ calls[m] = P!Idle
    <2>1. CASE calls[s].kind = "task"
      BY <2>1 DEF P!Changed
    <2>2. CASE calls[s].kind = "add"
      <3>1. m \in Slots /\ calls[m] = P!Idle
        BY <1>1, <2>2, FreeCall
      <3>2. m # s
        BY <2>2, <3>1, IdleCall
      <3>3. calls' = [calls EXCEPT ![s] = r, ![m] = q]
        BY <2>2 DEF P!Changed
      <3> HIDE DEF r, q, m
      <3>4. calls' = [mid EXCEPT ![m] = q]
        BY <3>3
      <3> QED BY <3>1, <3>2, <3>4
    <2> QED BY <1>1, <2>1, <2>2
  <1> HIDE DEF r, q, m
  <1>4. /\ mid = [t \in Slots |-> mid[t]] /\ \A t \in Slots : IsCall(mid[t])
        /\ mid[s] = r /\ \A t \in Slots \ {s} : mid[t] = calls[t]
    BY <1>1, <1>2 DEF CallTypes
  <1> HIDE DEF mid
  <1>5. /\ calls' = [t \in Slots |-> calls'[t]] /\ \A t \in Slots : IsCall(calls'[t])
        /\ calls'[s] = r
        /\ \A t \in Slots \ {s} : calls'[t] = calls[t] \/ (calls'[t] = q /\ calls[t] = P!Idle)
    BY <1>2, <1>3, <1>4
  <1>6. CallTypes'
    BY <1>1, <1>5 DEF CallTypes
  <1>7. ReportPhase'
    <2>1. \A t \in Slots : \/ calls'[t] = calls[t]
                           \/ calls[t].kind \notin {"rules", "run"} /\ calls'[t].kind \notin {"rules", "run"}
      BY <1>1, <1>2, <1>5, IdleCall
    <2> QED BY <1>1, <2>1, ReportKept
  <1>8. ProjectPhase'
    <2> SUFFICES ASSUME "project" \in undisturbed PROVE Loading'
      BY <1>1 DEF ProjectPhase
    <2>1. AloneCall(s)
      BY <1>1, OnlyCall DEF ProjectPhase, Loading, RowChanging, Changing
    <2>2. \A t \in Slots : \/ calls'[t] = P!Idle
                           \/ calls'[t].kind \in {"project", "nodes"} /\ calls'[t].pc = "sent"
      BY <1>2, <1>5, <2>1 DEF AloneCall
    <2> QED BY <1>2, <1>5, <2>2, IdleCall DEF Loading
  <1> QED BY <1>6, <1>7, <1>8 DEF PageInv

LEMMA ReportRead ==
  ASSUME PageInv, NEW s \in Slots, NEW part \in P!Report, P!ReadReport(s, part)
  PROVE  PageInv'
  <1> DEFINE c == calls[s]
             read == [p \in c.done \cup {part} |-> IF p = part THEN runs ELSE c.nodes[p]]
             r == [c EXCEPT !.done = c.done \cup {part}, !.nodes = read]
  <1>1. /\ CallTypes /\ ProjectPhase /\ ReportPhase /\ IsCall(c) /\ c.kind = "rules"
        /\ UNCHANGED <<nodes, tasks, runs, project, components, projectNodes, requirements, conflicts, undisturbed>>
    BY DEF PageInv, CallTypes, P!ReadReport, P!Server, P!Page
  <1>2. calls' = [calls EXCEPT ![s] = r]
    BY <1>1 DEF P!ReadReport, IsCall
  <1>3. IsCall(r) /\ r.kind = "rules" /\ r.done = c.done \cup {part} /\ r.nodes = read
    BY <1>1 DEF IsCall
  <1> HIDE DEF r
  <1>4. CallTypes' /\ calls'[s] = r /\ \A t \in Slots \ {s} : calls'[t] = calls[t]
    BY <1>1, <1>2, <1>3, CallsTyped
  <1>5. ProjectPhase'
    BY <1>1, <1>3, <1>4, ProjectKept
  <1>6. ReportPhase'
    <2> SUFFICES ASSUME "report" \in undisturbed PROVE Reporting'
      BY <1>1 DEF ReportPhase
    <2>1. Reporting
      BY <1>1, OnlyCall DEF ReportPhase
    <2>2. \A p \in r.done : r.nodes[p] = runs
      BY <1>1, <1>3, <2>1 DEF Reporting
    <2> QED BY <1>1, <1>3, <1>4, <2>1, <2>2 DEF Reporting
  <1> QED BY <1>4, <1>5, <1>6 DEF PageInv

LEMMA ReportLoaded ==
  ASSUME PageInv, NEW s \in Slots, P!RuleDataLoaded(s)
  PROVE  PageInv'
  <1>1. /\ CallTypes /\ ProjectPhase /\ ReportPhase /\ calls[s].kind = "rules" /\ calls[s].done = P!Report
        /\ requirements' = calls[s].nodes["requirements"] /\ conflicts' = calls[s].nodes["conflicts"]
        /\ calls' = [calls EXCEPT ![s] = P!Idle]
        /\ UNCHANGED <<nodes, tasks, runs, project, components, projectNodes, undisturbed>>
    BY DEF PageInv, P!RuleDataLoaded, P!Server
  <1>2. CallTypes' /\ calls'[s] = P!Idle /\ \A t \in Slots \ {s} : calls'[t] = calls[t]
    BY <1>1, IdleCall, CallsTyped
  <1>3. ProjectPhase'
    BY <1>1, <1>2, IdleCall, ProjectKept
  <1>4. ReportPhase'
    <2> SUFFICES ASSUME "report" \in undisturbed PROVE Reporting'
      BY <1>1 DEF ReportPhase
    <2>1. Reporting
      BY <1>1, OnlyCall DEF ReportPhase
    <2>2. requirements' = runs /\ conflicts' = runs
      BY <1>1, <2>1 DEF Reporting, P!Report
    <2> QED BY <1>1, <1>2, <2>1, <2>2, IdleCall DEF Reporting
  <1> QED BY <1>2, <1>3, <1>4 DEF PageInv

\* After a run the report is on its way.
LEMMA ReportAsked ==
  ASSUME PageInv, NEW s \in Slots, P!RuleEngineRan(s)
  PROVE  PageInv'
  <1> DEFINE r == P!Sent("rules", "run")
  <1>1. /\ CallTypes /\ ProjectPhase /\ ReportPhase /\ calls[s].kind = "run"
        /\ calls' = [calls EXCEPT ![s] = r]
        /\ UNCHANGED <<nodes, tasks, runs, project, components, projectNodes, requirements, conflicts, undisturbed>>
    BY DEF PageInv, P!RuleEngineRan, P!Server, P!Page
  <1>2. IsCall(r) /\ r.kind = "rules" /\ r.done = {}
    BY IdleCall
  <1> HIDE DEF r
  <1>3. CallTypes' /\ calls'[s] = r /\ \A t \in Slots \ {s} : calls'[t] = calls[t]
    BY <1>1, <1>2, CallsTyped
  <1>4. ProjectPhase'
    BY <1>1, <1>2, <1>3, ProjectKept
  <1>5. ReportPhase'
    <2> SUFFICES ASSUME "report" \in undisturbed PROVE Reporting'
      BY <1>1 DEF ReportPhase
    <2>1. AloneCall(s)
      BY <1>1, OnlyCall DEF ReportPhase, Reporting
    <2> QED BY <1>2, <1>3, <2>1, IdleCall DEF Reporting, AloneCall
  <1> QED BY <1>3, <1>4, <1>5 DEF PageInv

\* Who asks while the page is quiet has it to himself; who asks at another time disturbs it.
LEMMA PageAsked ==
  ASSUME PageInv, NEW r, IsCall(r), r.pc = "sent", r.kind \in {"component", "add", "task", "run"},
         P!Ask(r),
         undisturbed' = {} \/ P!Quiet,
         "report" \in undisturbed' => "report" \in undisturbed \/ r.kind = "run",
         "project" \in undisturbed' => "project" \in undisturbed \/ r.kind \in {"add", "task"},
         r.kind # "component" => components' = components,
         r.kind = "component" => /\ r.id \in DOMAIN components /\ r.previous = components[r.id]
                                 /\ components' = [components EXCEPT ![r.id] = r.status]
  PROVE  PageInv'
  <1>1. /\ CallTypes /\ calls' = [calls EXCEPT ![P!Min(P!Free)] = r]
        /\ UNCHANGED <<nodes, tasks, runs, project, projectNodes, requirements, conflicts>>
    BY DEF PageInv, P!Ask, P!Server
  <1>2. PICK m \in Slots : calls[m] = P!Idle /\ calls' = [calls EXCEPT ![m] = r]
    BY <1>1, FreeCall DEF P!Ask
  <1>3. CallTypes' /\ calls'[m] = r /\ \A t \in Slots \ {m} : calls'[t] = calls[t]
    BY <1>1, <1>2, CallsTyped
  <1>4. CASE undisturbed' = {}
    BY <1>3, <1>4 DEF PageInv, ProjectPhase, ReportPhase
  <1>5. CASE P!Quiet
    <2>1. /\ \A s \in Slots : calls[s] = P!Idle
          /\ "project" \in undisturbed => ProjectShown
          /\ "report" \in undisturbed => requirements = runs /\ conflicts = runs
      BY <1>5, QuietPage
    <2>2. AloneCall(m)' /\ \A t \in Slots \ {m} : calls'[t].kind = "none"
      BY <1>3, <2>1, IdleCall DEF AloneCall
    <2>3. ReportPhase'
      <3>1. CASE r.kind = "run"
        BY <1>2, <1>3, <2>2, <3>1 DEF ReportPhase
      <3>2. CASE r.kind # "run"
        <4>1. "report" \in undisturbed' => requirements' = runs' /\ conflicts' = runs'
          BY <1>1, <2>1, <3>2
        <4> QED BY <1>3, <2>2, <3>2, <4>1 DEF ReportPhase, Reporting
      <3> QED BY <3>1, <3>2
    <2>4. ProjectPhase'
      <3>1. CASE r.kind \in {"add", "task"}
        BY <1>2, <1>3, <2>2, <3>1 DEF ProjectPhase, Changing
      <3>2. CASE r.kind = "run"
        <4>1. "project" \in undisturbed' => ProjectShown'
          BY <1>1, <2>1, <3>2 DEF ProjectShown
        <4> QED BY <1>3, <2>2, <3>2, <4>1 DEF ProjectPhase, Loading
      <3>3. CASE r.kind = "component"
        <4> SUFFICES ASSUME "project" \in undisturbed' PROVE ProjectPhase'
          BY DEF ProjectPhase
        <4>1. ProjectShown
          BY <2>1, <3>3
        <4>2. ASSUME nodes # P!None PROVE RowChanged(r)'
          BY <1>1, <3>3, <4>1, <4>2 DEF RowChanged, ProjectShown
        <4>3. RowChanging(m)'
          BY <1>1, <1>3, <2>2, <3>3, <4>1, <4>2 DEF RowChanging, ProjectShown
        <4> QED BY <1>2, <4>3 DEF ProjectPhase
      <3> QED BY <3>1, <3>2, <3>3
    <2> QED BY <1>3, <2>3, <2>4 DEF PageInv
  <1> QED BY <1>4, <1>5

LEMMA PageStep == PageInv /\ P!PNext => PageInv'
  <1> SUFFICES ASSUME PageInv, P!PNext PROVE PageInv'
    OBVIOUS
  <1>0. CallTypes
    BY DEF PageInv
  <1>1. ASSUME NEW s \in Slots, P!ReadServer(s) PROVE PageInv'
    BY <1>1, PageRead
  <1>2. ASSUME NEW s \in Slots, P!ProjectLoaded(s) \/ P!NodesLoaded(s) PROVE PageInv'
    BY <1>2, PageLoaded
  <1>3. ASSUME NEW s \in Slots, P!LoadFails(s) \/ P!RuleDataFails(s) \/ P!ChangeFails(s) PROVE PageInv'
    <2>1. calls' = [calls EXCEPT ![s] = P!Idle] /\ undisturbed' = {} /\ nodes' = nodes
      BY <1>3 DEF P!LoadFails, P!RuleDataFails, P!ChangeFails, P!Server
    <2>2. CallTypes'
      BY <1>0, <2>1, IdleCall, CallsTyped
    <2> QED BY <2>1, <2>2 DEF PageInv, ProjectPhase, ReportPhase
  <1>4. ASSUME NEW s \in Slots, P!PatchNode(s) PROVE PageInv'
    BY <1>4, RowPatched
  <1>5. ASSUME NEW s \in Slots, P!ComponentChanged(s) PROVE PageInv'
    BY <1>5, RowSettled
  <1>6. ASSUME NEW s \in Slots, P!ComponentRefused(s) PROVE PageInv'
    <2>1. CASE calls[s].pc = "refused" /\ undisturbed' = undisturbed
      BY <1>6, <2>1, RowSettled
    <2>2. CASE undisturbed' = {}
      <3>1. calls' = [calls EXCEPT ![s] = P!Idle] /\ nodes' = nodes
        BY <1>6 DEF P!ComponentRefused, P!Server
      <3>2. CallTypes'
        BY <1>0, <3>1, IdleCall, CallsTyped
      <3> QED BY <2>2, <3>2 DEF PageInv, ProjectPhase, ReportPhase
    <2> QED BY <1>6, <2>1, <2>2 DEF P!ComponentRefused
  <1>7. ASSUME NEW s \in Slots, P!Change(s) PROVE PageInv'
    BY <1>7, PageChanges
  <1>8. ASSUME NEW s \in Slots, P!Changed(s) PROVE PageInv'
    BY <1>8, PageChanged
  <1>9. ASSUME NEW s \in Slots, NEW part \in P!Report, P!ReadReport(s, part) PROVE PageInv'
    BY <1>9, ReportRead
  <1>10. ASSUME NEW s \in Slots, P!RuleDataLoaded(s) PROVE PageInv'
    BY <1>10, ReportLoaded
  <1>11. ASSUME NEW s \in Slots, P!RuleEngineRan(s) PROVE PageInv'
    BY <1>11, ReportAsked
  <1>12. ASSUME NEW id, NEW to, P!ChangeComponent(id, to) PROVE PageInv'
    <2> DEFINE old == components[id]
               r == [P!Sent("component", "none") EXCEPT !.id = id, !.status = to, !.previous = old]
    <2>1. /\ IsCall(r) /\ r.pc = "sent" /\ r.kind = "component"
          /\ r.id = id /\ r.status = to /\ r.previous = old
      BY DEF P!Sent, P!Idle, IsCall
    <2>2. /\ P!Ask(r) /\ id \in DOMAIN components /\ components' = [components EXCEPT ![id] = to]
          /\ undisturbed' = IF P!Quiet THEN undisturbed ELSE {}
      BY <1>12 DEF P!ChangeComponent, P!ComponentTable
    <2> HIDE DEF r
    <2> QED BY <2>1, <2>2, PageAsked
  <1>13. CASE P!HandleAddComponent \/ P!HandleStatusChange \/ P!HandleCreateTask \/ P!HandleDocumentUpload
                \/ P!HandleRunRuleEngine
    <2>1. PICK kind \in {"add", "task", "run"}, for \in {"add", "none", "create", "upload", "run"} :
               P!AskOnly(P!Sent(kind, for))
      BY <1>13 DEF P!HandleAddComponent, P!HandleStatusChange, P!HandleCreateTask, P!HandleDocumentUpload,
                   P!HandleRunRuleEngine
    <2> DEFINE r == P!Sent(kind, for)
    <2>2. IsCall(r) /\ r.pc = "sent" /\ r.kind = kind
      BY IdleCall
    <2> HIDE DEF r
    <2>3. /\ P!Ask(r) /\ components' = components
          /\ undisturbed' = IF P!Quiet THEN undisturbed \cup {IF r.kind = "run" THEN "report" ELSE "project"} ELSE {}
      BY <2>1 DEF P!AskOnly, r
    <2>4. undisturbed' = {} \/ P!Quiet
      BY <2>3
    <2>5. /\ "report" \in undisturbed' => "report" \in undisturbed \/ r.kind = "run"
          /\ "project" \in undisturbed' => "project" \in undisturbed \/ r.kind \in {"add", "task"}
      BY <2>2, <2>3
    <2> QED BY <2>2, <2>3, <2>4, <2>5, PageAsked
  <1>14. CASE P!Elsewhere
    <2>1. undisturbed' = {} /\ calls' = calls
      BY <1>14 DEF P!Elsewhere
    <2>2. nodes' = nodes \/ nodes' = [n \in DOMAIN nodes' |-> nodes'[n]]
      <3>1. CASE P!CreateNode
        BY <3>1, NodesTyped
      <3>2. CASE nodes' = nodes
        BY <3>2
      <3>3. ASSUME NEW id \in DOMAIN nodes, nodes' = [n \in DOMAIN nodes \ {id} |-> nodes[n]]
            PROVE  nodes' = [n \in DOMAIN nodes' |-> nodes'[n]]
        BY <3>3
      <3>4. ASSUME NEW id \in DOMAIN nodes, NEW to, nodes' = [nodes EXCEPT ![id] = to]
            PROVE  nodes' = [n \in DOMAIN nodes' |-> nodes'[n]]
        BY <3>4
      <3> QED BY <1>14, <3>1, <3>2, <3>3, <3>4 DEF P!Elsewhere
    <2>3. CallTypes'
      BY <1>0, <2>1, <2>2 DEF CallTypes, IsCall
    <2> QED BY <2>1, <2>3 DEF PageInv, ProjectPhase, ReportPhase
  <1> QED BY <1>1, <1>2, <1>3, <1>4, <1>5, <1>6, <1>7, <1>8, <1>9, <1>10, <1>11, <1>12, <1>13, <1>14 DEF P!PNext

LEMMA InitPage == P!PInit => PageInv
  <1> SUFFICES ASSUME P!PInit PROVE PageInv
    OBVIOUS
  <1> DEFINE n == P!Cardinality(Slots)
  <1>1. n \in Nat /\ n >= 3 /\ Slots = 1 .. n
    BY PagesAssumption DEF P!PageAssumption
  <1> HIDE DEF n
  <1>2. P!Min(Slots) = 1
    <2>1. \E x \in Slots : \A y \in Slots : x <= y
      BY <1>1
    <2>2. P!Min(Slots) \in Slots /\ \A y \in Slots : P!Min(Slots) <= y
      BY <2>1 DEF P!Min
    <2> QED BY <1>1, <2>2
  <1>3. P!Max(Slots) = n
    <2>1. \E x \in Slots : \A y \in Slots : x >= y
      BY <1>1
    <2>2. P!Max(Slots) \in Slots /\ \A y \in Slots : P!Max(Slots) >= y
      BY <2>1 DEF P!Max
    <2> QED BY <1>1, <2>2
  <1>4. calls = [s \in Slots |-> CASE s = 1 -> P!Sent("project", "page")
                                   [] s = n -> P!Sent("nodes", "page")
                                   [] s = 2 -> P!Sent("rules", "page")
                                   [] OTHER -> P!Idle]
    BY <1>2, <1>3 DEF P!PInit
  <1>5. 1 \in Slots /\ calls[1] = P!Sent("project", "page")
    BY <1>1, <1>4
  <1>6. ASSUME NEW s \in Slots
        PROVE  \/ calls[s] \in {P!Sent("project", "page"), P!Sent("nodes", "page")}
               \/ calls[s] \in {P!Sent("rules", "page"), P!Idle}
    BY <1>1, <1>4
  <1>7. CallTypes
    <2>1. \A s \in Slots : IsCall(calls[s])
      BY <1>6, IdleCall
    <2>2. nodes # P!None => nodes = [m \in DOMAIN nodes |-> nodes[m]]
      BY DEF P!PInit
    <2> QED BY <1>4, <2>1, <2>2 DEF CallTypes
  <1>8. Loading
    BY <1>5, <1>6, IdleCall DEF Loading
  <1>9. Reporting
    BY <1>6, IdleCall DEF Reporting, P!PInit
  <1> QED BY <1>7, <1>8, <1>9 DEF PageInv, ProjectPhase, ReportPhase

\* On the page of a project (projects/[id]/page.tsx), with all requests answered, the register, the
\* tasks and the report agree with the server if the last operations did not overlap, nothing
\* failed and nobody else wrote.
THEOREM PageStaysTrue == PagesSpec => []PageAgrees
  <1>1. PagesInit => PageInv
    BY InitPage DEF PagesInit
  <1>2. PageInv /\ [PagesNext]_pages => PageInv'
    <2> SUFFICES ASSUME PageInv, [PagesNext]_pages PROVE PageInv'
      OBVIOUS
    <2>1. P!PNext \/ UNCHANGED proj
      BY DEF PagesNext, OnInbox, OnNone, OnDocuments, OnDocument, OnProject, OnAudits, OnCompliance, pages
    <2>2. UNCHANGED proj => PageInv'
      BY DEF proj, PageInv, CallTypes, IsCall, ProjectPhase, ReportPhase, Loading, ProjectShown, RowChanging,
             RowChanged, Changing, AloneCall, Reporting
    <2> QED BY <2>1, <2>2, PageStep
  <1>3. PageInv => PageAgrees
    BY QuietPage DEF PageAgrees, P!PageAgrees, ProjectShown
  <1> QED BY <1>1, <1>2, <1>3, PTL DEF PagesSpec


(***************************************************************************)
(* The inbox as one of the pages: their steps are its own, or leave it and *)
(* the events beside it alone.                                             *)
(***************************************************************************)
LEMMA PagesKeepInbox == PagesSpec => Init /\ [][Next]_vars
  <1>1. PagesInit => Init
    BY DEF PagesInit
  <1>n. Others => Next
    BY DEF Next
  <1>2. [PagesNext]_pages => [Next]_vars
    BY <1>n DEF PagesNext, OnInbox, OnNone, OnDocuments, OnDocument, OnProject, OnAudits, OnCompliance, pages
  <1> QED BY <1>1, <1>2, PTL DEF PagesSpec

\* Whichever page is open, or none, a COMPLETED event has its report and exactly the suggested tasks, any
\* other no more than a first part of them, and an inbox at rest shows what its filter names.
THEOREM InboxAmongPages == PagesSpec => []WholeOrPart /\ []InboxShowsFilter
  <1>1. WorkInv => WholeOrPart
    BY WorkIsWhole
  <1>2. InboxInv => InboxShowsFilter
    BY InboxIsTrue
  <1> QED BY <1>1, <1>2, PagesKeepInbox, InboxReachable, PTL
=============================================================================
