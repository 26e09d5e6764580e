---------------------------- MODULE ProjectFacts ----------------------------
(***************************************************************************)
(* What a project is known by.  The projects service keeps it three times: *)
(* in columns of the project, in its JSON column facts, and in one row of  *)
(* project_facts per fact; the rule engine reads all three, the rows last. *)
(*                                                                         *)
(* createProject and updateProject write the project and then, without a   *)
(* transaction, upsert the rows, all at once (Promise.all): one that       *)
(* throws fails the call, while the others are still on their way.         *)
(***************************************************************************)
EXTENDS Turns, RuleConditions, FiniteSets

CONSTANTS
    Columns,        \* facts that are columns of the project, psValue say
    Extras,         \* facts under names of clients' own
    Values,         \* per fact, what a client may state of it
    Dtos,           \* what clients send
    Calls,          \* the calls of createProject and updateProject
    NoCall,
    Rules,          \* the conditions of the rules a run may evaluate
    Faults          \* what may go wrong: a subset of FaultKinds

Keys == Columns \cup Extras

AnyValue == UNION {Values[k] : k \in Keys}
Recorded == AnyValue \cup Absent

\* "project": the query for the project or its update; "fact": an upsert of a row;
\* "kill": the process that serves a call.
FaultKinds == {"project", "fact", "kill"}

\* A dto has a field for each column, and a map facts that may name anything, the columns
\* among it.  Null in a field is as good as nothing (??); in facts it is there.
Dto == [fields : {d \in [Columns -> Recorded] : \A k \in Columns : d[k] \in Values[k] \cup {Undefined}},
        facts  : {d \in [Keys -> Recorded] : \A k \in Keys : d[k] \in Values[k] \cup Absent}]

\* What the constants are taken to be.
ProjectFactsAssumption ==
    /\ \A k \in Keys : Values[k] \cap Absent = {}
    /\ Dtos \subseteq Dto
    /\ NoCall \notin Calls
    /\ Rules \subseteq Conditions
    /\ Faults \subseteq FaultKinds

\* The rules ask for facts a project may have; a number a client states is a whole one.
RulesAssumption ==
    /\ ConditionsAssumption
    /\ \A c \in Conditions : Form[c].kind = "test" => Form[c].fact \in Keys
    /\ \A k \in Keys : \A v \in Values[k] : Numeric(v)

VARIABLES
    column,     \* the columns of the project row
    facts,      \* its JSON column facts
    row,        \* the rows of project_facts: their values
    call,       \* the calls: where they are and what they hold
    pending,    \* upserts that are on their way to the database
    latest,     \* history: the call that came last
    stated,     \* history: per fact, what clients who take turns have last said it is
    overlaid    \* history: the columns that they have named in a dto's facts

project == <<column, facts, row>>
said    == <<stated, overlaid>>
factVars == <<turns, project, call, pending, latest, said>>

CallPc   == {"unused", "write", "sync", "done", "failed", "lost"}
CallOpen == {"write", "sync"}
\* alone is history: nothing else was under way since the call began.
CallRecord == [pc : CallPc, dto : Dto, read : [Columns -> Recorded], alone : BOOLEAN]
Upserts    == [by : Calls, key : Keys, value : AnyValue]

Nothing    == [k \in Keys |-> Undefined]
NoColumns  == [k \in Columns |-> Undefined]
UnusedCall == [pc |-> "unused", dto |-> [fields |-> NoColumns, facts |-> Nothing],
               read |-> NoColumns, alone |-> FALSE]

\* A call that has ended holds nothing any more.
Ended(u, pc) == [UnusedCall EXCEPT !.pc = pc, !.alone = call[u].alone]

Exists == \E k \in Columns : column[k] # Undefined
\* In turns, nobody calls while another call, or what it left behind, is under way.
Quiet  == pending = {} /\ \A u \in Calls : call[u].pc \notin CallOpen

FactsInit ==
    /\ turns \in TurnModes
    /\ column = NoColumns
    /\ facts = Nothing
    /\ row = Nothing
    /\ call = [u \in Calls |-> UnusedCall]
    /\ pending = {}
    /\ latest = NoCall
    /\ stated = [k \in Keys |-> {Null}]
    /\ overlaid = {}

----------------------------------------------------------------------------
(* What the services make of the parts *)

\* What is said first, if anything is.
OrElse(v, w) == IF v # Undefined THEN v ELSE w

\* dto.psValue ?? project.psValue ?? null: a column cannot be cleared.
NewColumn(u) == [k \in Columns |-> OrElse(OrElse(call[u].dto.fields[k], call[u].read[k]), Null)]

\* buildFacts of the projects service: the columns as they will be, dto.facts of this call
\* over them, and nothing of what earlier calls had in theirs.
BuildFacts(u) == [k \in Keys |-> OrElse(call[u].dto.facts[k],
                                       IF k \in Columns THEN NewColumn(u)[k] ELSE Undefined)]

\* syncProjectFacts: null and undefined are left out.
Entries(u, built) ==
    {[by |-> u, key |-> k, value |-> built[k]] : k \in {x \in Keys : built[x] \notin Absent}}

ColumnOf(k) == IF k \in Columns THEN column[k] ELSE Undefined

\* Broken variant of EngineFacts: project.facts last.
EngineFactsRowsFirst == [k \in Keys |-> OrElse(OrElse(facts[k], row[k]), ColumnOf(k))]

\* buildFacts of the rule engine: the columns, project.facts over them, the rows over both.
EngineFacts == [k \in Keys |-> OrElse(OrElse(row[k], facts[k]), ColumnOf(k))]

----------------------------------------------------------------------------
(* A broken variant of Write below; it is no part of the specification     *)

\* The upserts are not awaited.
WriteDetached(u) ==
    /\ call[u].pc = "write"
    /\ column' = NewColumn(u)
    /\ facts' = BuildFacts(u)
    /\ pending' = pending \cup Entries(u, BuildFacts(u))
    /\ call' = [call EXCEPT ![u] = Ended(u, "done")]
    /\ UNCHANGED <<turns, row, latest, said>>

----------------------------------------------------------------------------
(* createProject, updateProject *)

\* What a dto says of a fact, in either place.
Says(dto, k) == ({dto.facts[k]} \cup (IF k \in Columns THEN {dto.fields[k]} ELSE {})) \ Absent

\* The columns a dto names under facts.
Overlays(dto) == {k \in Columns : dto.facts[k] # Undefined}

\* A call arrives, with what its dto states.
Begin(u, dto) ==
    /\ call[u].pc = "unused"
    /\ turns => Quiet
    /\ call' = [w \in Calls |->
                  IF w = u THEN [pc |-> "write", dto |-> dto, read |-> column, alone |-> Quiet]
                           ELSE [call[w] EXCEPT !.alone = FALSE]]
    /\ latest' = u
    /\ stated' = [k \in Keys |-> IF turns THEN stated[k] \cup Says(dto, k) ELSE stated[k]]
    /\ overlaid' = IF turns THEN overlaid \cup Overlays(dto) ELSE overlaid
    /\ UNCHANGED <<turns, project, pending>>

\* The call that gives the project its id: there is nothing to read, and nothing to update
\* before its row is there.
CreateProject(u, dto) ==
    /\ ~Exists /\ \A w \in Calls : call[w].pc # "write"
    /\ Begin(u, dto)

\* ensureProject: the columns are read before they are written.
UpdateProject(u, dto) == Exists /\ Begin(u, dto)

\* project.create or project.update, and the upserts are sent.
Write(u) ==
    /\ call[u].pc = "write"
    /\ column' = NewColumn(u)
    /\ facts' = BuildFacts(u)
    /\ pending' = pending \cup Entries(u, BuildFacts(u))
    /\ call' = [call EXCEPT ![u].pc = "sync"]
    /\ UNCHANGED <<turns, row, latest, said>>

\* projectFact.upsert
UpsertRow(p) ==
    /\ p \in pending
    /\ row' = [row EXCEPT ![p.key] = p.value]
    /\ pending' = pending \ {p}
    /\ UNCHANGED <<turns, column, facts, call, latest, said>>

\* Promise.all is rejected by the first upsert that throws.
UpsertFails(p) ==
    /\ "fact" \in Faults
    /\ p \in pending
    /\ pending' = pending \ {p}
    /\ call' = [call EXCEPT ![p.by] = IF @.pc = "sync" THEN Ended(p.by, "failed") ELSE @]
    /\ UNCHANGED <<turns, project, latest, said>>

\* All upserts are answered.  What the call said of a fact is what clients now hold to be
\* so; of a column they have ever named in both places, it may be anything they said.
Answer(u) ==
    /\ call[u].pc = "sync"
    /\ \A p \in pending : p.by # u
    /\ call' = [call EXCEPT ![u] = Ended(u, "done")]
    /\ stated' = [k \in Keys |->
         IF ~turns \/ k \in overlaid \/ Says(call[u].dto, k) = {} THEN stated[k] ELSE Says(call[u].dto, k)]
    /\ UNCHANGED <<turns, project, pending, latest, overlaid>>

WriteFails(u) ==
    /\ "project" \in Faults
    /\ call[u].pc = "write"
    /\ call' = [call EXCEPT ![u] = Ended(u, "failed")]
    /\ UNCHANGED <<turns, project, pending, latest, said>>

\* The process that serves the call is killed: of its upserts nothing more is heard.
Kill(u) ==
    /\ "kill" \in Faults
    /\ call[u].pc \in CallOpen
    /\ call' = [call EXCEPT ![u] = Ended(u, "lost")]
    /\ pending' = {p \in pending : p.by # u}
    /\ UNCHANGED <<turns, project, latest, said>>

----------------------------------------------------------------------------

FactsNext ==
    \/ \E u \in Calls :
        \/ \E dto \in Dtos : CreateProject(u, dto) \/ UpdateProject(u, dto)
        \/ Write(u) \/ Answer(u) \/ WriteFails(u) \/ Kill(u)
    \/ \E p \in pending : UpsertRow(p) \/ UpsertFails(p)

FactsSpec == FactsInit /\ [][FactsNext]_factVars

----------------------------------------------------------------------------
(* What the code keeps *)

FactsTypeOK ==
    /\ turns \in BOOLEAN
    /\ column \in [Columns -> Recorded]
    /\ facts \in [Keys -> Recorded]
    /\ row \in [Keys -> AnyValue \cup {Undefined}]
    /\ call \in [Calls -> CallRecord]
    /\ pending \subseteq Upserts
    /\ latest \in Calls \cup {NoCall}
    /\ stated \in [Keys -> SUBSET Recorded]
    /\ overlaid \subseteq Columns

\* A call that was answered, had the project to itself and is the last so far leaves rows
\* that agree with the project, whatever calls before it left half written: saving again
\* repairs.
Agree == \A k \in Keys : facts[k] \notin Absent => row[k] = facts[k]

SavingRepairs == \A u \in Calls : latest = u /\ call[u].pc = "done" /\ call[u].alone => Agree

\* If clients take turns, the rule engine knows every fact as it was last stated, over any
\* number of calls that say nothing of it; after a call that failed or died half way it may
\* also be as stated before.  A column that was ever named under facts, too, it knows as
\* one of the values stated, not always the last: a call that says nothing of it takes the
\* rows back to the column's value.
Known(v) == IF v = Undefined THEN Null ELSE v

TurnsKnowWhatWasStated ==
    turns /\ Quiet => \A k \in Keys : Known(EngineFacts[k]) \in stated[k]

\* Whenever a run of the rule engine reads the project, its verdict on a rule is one the
\* rule can have of the facts that are recorded, whatever the others really are: neither the
\* nesting of conditions nor JavaScript's conversions turn what the known facts decide.
KnownFactsDecide ==
    Exists => LET holds == EvaluateCondition(EngineFacts)
                  may   == Truths(EngineFacts)
              IN  \A rule \in Rules : holds[rule] \in may[rule]

=============================================================================
