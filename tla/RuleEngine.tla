----------------------------- MODULE RuleEngine -----------------------------
(***************************************************************************)
(* The rule engine (rule-engine.service.ts) of one project: runs that      *)
(* evaluate the rules over the project's facts and leave a requirements    *)
(* model and the conflicts they found, and the calls that resolve a        *)
(* conflict by disabling one of its rules for all later runs.              *)
(*                                                                         *)
(* Every awaited query is a step; a $transaction is one, being committed   *)
(* or rolled back as a whole.  All state is in the database, so calls of   *)
(* one process and of several look alike.  Rules never change (only the    *)
(* seed writes them): a rule is its position in the order the engine       *)
(* evaluates them, a condition the set of facts it holds for.              *)
(***************************************************************************)
EXTENDS Naturals, Sequences

CONSTANTS
    Rules,          \* positions, in the order of ruleSet.scope and createdAt
    Facts,          \* the facts a project may have
    When,           \* per rule, the facts that satisfy its condition
    ConflictKey,    \* per rule, what resolveConflictKey finds in its outcome
    Value,          \* per rule, the value or level its outcome states
    NoKey, NoValue, NoFact, NoOne,
    Filters,        \* the dto.ruleSetIds asked for, as the sets of rules they leave
    Runs,           \* the calls of runRuleEngine, and the evaluations they create
    Resolvers,      \* the calls of resolveConflict, and the overrides they create
    Faults,         \* what may go wrong: a subset of FaultKinds
    SerialRuns,     \* TRUE: nobody starts a run while one is in progress
    SerialResolvers \* TRUE: nobody resolves a conflict while somebody else does

\* "step": a statement inside runRuleEngine's try or the transaction of resolveConflict;
\* "catch": the update in its catch branch; "kill": the process that serves a run.
FaultKinds == {"step", "catch", "kill"}

ASSUME RuleEngineAssumption ==
    /\ Rules \subseteq Nat
    /\ When \in [Rules -> SUBSET Facts]
    /\ NoFact \notin Facts
    /\ NoOne \notin Resolvers
    /\ Filters \subseteq SUBSET Rules
    /\ Faults \subseteq FaultKinds
    /\ SerialRuns \in BOOLEAN /\ SerialResolvers \in BOOLEAN

VARIABLES
    fact,       \* the project's facts
    eval,       \* rows of rule_evaluations: the status of each run's evaluation
    started,    \* the same rows by startedAt
    models,     \* rows of requirements_models by createdAt
    conflict,   \* rows of rule_conflicts: status and resolvedByOverrideId
    overrides,  \* rows of rule_overrides, every one with action DISABLE_RULE
    run,        \* the calls of runRuleEngine: where they are and what they hold
    resolver    \* the calls of resolveConflict

tables == <<eval, started, models, conflict, overrides>>
vars == <<fact, tables, run, resolver>>

EvaluationStatus == {"ABSENT", "RUNNING", "COMPLETED", "FAILED"}
ConflictStatus   == {"ABSENT", "OPEN", "RESOLVED", "IGNORED"}
Resolution       == {"OVERRIDE_A", "OVERRIDE_B", "IGNORE"}
Query            == {"ruleSets", "overrides", "currentModel"}

ConflictIds == {c \in Runs \X Rules \X Rules : c[2] < c[3]}

RunPc      == {"unused", "create", "fetch", "write", "catch", "done", "failed", "lost"}
RunOpen    == {"create", "fetch", "write", "catch"}
ResolverPc == {"unused", "resolve", "done", "failed"}

\* barred is history: the rules that were disabled when the evaluation was created.
RunRecord == [pc : RunPc, facts : Facts \cup {NoFact}, picked : SUBSET Rules,
              barred : SUBSET Rules, fetched : SUBSET Query,
              rules : SUBSET Rules, disabled : SUBSET Rules, current : Nat]
ModelRecord    == [run : Runs, version : Nat, hits : SUBSET Rules]
ConflictRecord == [status : ConflictStatus, by : Resolvers \cup {NoOne}]
OverrideRecord == [rule : Rules, conflict : ConflictIds, by : Resolvers]
ResolverRecord == [pc : ResolverPc, conflict : ConflictIds \cup {NoOne},
                   resolution : Resolution]

UnusedRun == [pc |-> "unused", facts |-> NoFact, picked |-> {}, barred |-> {},
              fetched |-> {}, rules |-> {}, disabled |-> {}, current |-> 0]
UnusedResolver == [pc |-> "unused", conflict |-> NoOne, resolution |-> "IGNORE"]
NoConflict == [status |-> "ABSENT", by |-> NoOne]

InProgress(r) == run[r].pc \in RunOpen
Resolving(v) == resolver[v].pc = "resolve"

\* Broken variant of LatestRequirements: createdAt asc.
OldestRequirements == models[1]

\* requirementsModel.findFirst by createdAt desc, the model everybody reads.
LatestRequirements == models[Len(models)]

Init ==
    /\ fact \in Facts
    /\ eval = [r \in Runs |-> "ABSENT"]
    /\ started = <<>>
    /\ models = <<>>
    /\ conflict = [c \in ConflictIds |-> NoConflict]
    /\ overrides = {}
    /\ run = [r \in Runs |-> UnusedRun]
    /\ resolver = [v \in Resolvers |-> UnusedResolver]

----------------------------------------------------------------------------
(* Evaluation: what the code computes between its queries *)

\* The rules some override of the project disables.  DISABLE_RULE is the only action
\* that is ever written, so it does not matter which override of a rule the Map keeps.
Disabled == {o.rule : o \in overrides}

\* Broken variant of Hits: the overrides are not looked at.
HitsDespiteOverrides(rules, disabled, facts) == {a \in rules : facts \in When[a]}

\* evaluateRules
Hits(rules, disabled, facts) == {a \in rules \ disabled : facts \in When[a]}

\* An outcome that states neither value nor level stands for itself, ruleCode included.
ConflictValue(a) == IF Value[a] = NoValue THEN <<"outcome", a>> ELSE <<"value", Value[a]>>

\* The hits on one conflict key are not of one mind.
SplitGroup(hits, key) ==
    \E a, b \in hits : /\ ConflictKey[a] = key /\ ConflictKey[b] = key
                       /\ ConflictValue(a) # ConflictValue(b)

\* Broken variant of ConflictPairs: the first hit of a group is compared with the others.
ConflictPairsWithFirst(hits) ==
    {p \in hits \X hits : /\ p[1] < p[2]
                          /\ ConflictKey[p[1]] = ConflictKey[p[2]]
                          /\ ConflictKey[p[1]] # NoKey
                          /\ SplitGroup(hits, ConflictKey[p[1]])
                          /\ ~\E b \in hits : b < p[1] /\ ConflictKey[b] = ConflictKey[p[1]]}

\* detectConflicts: all pairs of every split group.
ConflictPairs(hits) ==
    {p \in hits \X hits : /\ p[1] < p[2]
                          /\ ConflictKey[p[1]] = ConflictKey[p[2]]
                          /\ ConflictKey[p[1]] # NoKey
                          /\ SplitGroup(hits, ConflictKey[p[1]])}

----------------------------------------------------------------------------
(* Broken variants of actions below, each the slip a change to the code could make;  *)
(* none is part of the specification.  The properties at the end tell them apart.    *)

\* The writes are not wrapped in a transaction: the last of them throws.
StepFailsHalfway(r) ==
    /\ "step" \in Faults
    /\ run[r].pc = "write"
    /\ models' = Append(models, [run |-> r, version |-> run[r].current + 1,
                                 hits |-> Hits(run[r].rules, run[r].disabled, run[r].facts)])
    /\ run' = [run EXCEPT ![r].pc = "catch"]
    /\ UNCHANGED <<fact, eval, started, conflict, overrides, resolver>>

\* The catch branch only logs and throws on.
CatchOnlyThrows(r) ==
    /\ run[r].pc = "catch"
    /\ run' = [run EXCEPT ![r].pc = "failed"]
    /\ UNCHANGED <<fact, tables, resolver>>

\* A resolved conflict is not recognised.
ReadConflictUntested(v, c, resolution) ==
    /\ resolver[v].pc = "unused"
    /\ SerialResolvers => \A w \in Resolvers : ~Resolving(w)
    /\ conflict[c].status # "ABSENT"
    /\ resolver' = [resolver EXCEPT ![v] = [pc |-> "resolve", conflict |-> c,
                                            resolution |-> resolution]]
    /\ UNCHANGED <<fact, tables, run>>

----------------------------------------------------------------------------
(* runRuleEngine *)

\* The projects service changes the project; runs see it when they start.
ChangeFact(f) ==
    /\ f # fact
    /\ fact' = f
    /\ UNCHANGED <<tables, run, resolver>>

\* The project and its facts are read; dto.facts, if given, overlays them.
ReadProject(r, given, picked) ==
    /\ run[r].pc = "unused"
    /\ SerialRuns => \A q \in Runs : ~InProgress(q)
    /\ run' = [run EXCEPT ![r].pc = "create", ![r].picked = picked,
                          ![r].facts = IF given = NoFact THEN fact ELSE given]
    /\ UNCHANGED <<fact, tables, resolver>>

CreateEvaluation(r) ==
    /\ run[r].pc = "create"
    /\ eval' = [eval EXCEPT ![r] = "RUNNING"]
    /\ started' = Append(started, r)
    /\ run' = [run EXCEPT ![r].pc = "fetch", ![r].barred = Disabled]
    /\ UNCHANGED <<fact, models, conflict, overrides, resolver>>

\* Promise.all: three queries, answered in any order.
FetchRuleSets(r) ==
    /\ run[r].pc = "fetch" /\ "ruleSets" \notin run[r].fetched
    /\ run' = [run EXCEPT ![r].fetched = @ \cup {"ruleSets"}, ![r].rules = run[r].picked]
    /\ UNCHANGED <<fact, tables, resolver>>

FetchOverrides(r) ==
    /\ run[r].pc = "fetch" /\ "overrides" \notin run[r].fetched
    /\ run' = [run EXCEPT ![r].fetched = @ \cup {"overrides"}, ![r].disabled = Disabled]
    /\ UNCHANGED <<fact, tables, resolver>>

FetchModel(r) ==
    /\ run[r].pc = "fetch" /\ "currentModel" \notin run[r].fetched
    /\ run' = [run EXCEPT ![r].fetched = @ \cup {"currentModel"},
                          ![r].current = IF models = <<>> THEN 0
                                         ELSE LatestRequirements.version]
    /\ UNCHANGED <<fact, tables, resolver>>

\* All three are there: rules are evaluated and the transaction begins.
Evaluate(r) ==
    /\ run[r].pc = "fetch" /\ run[r].fetched = Query
    /\ run' = [run EXCEPT ![r].pc = "write"]
    /\ UNCHANGED <<fact, tables, resolver>>

\* The transaction: hits, conflicts, model and the evaluation's status.
Write(r) ==
    LET hits == Hits(run[r].rules, run[r].disabled, run[r].facts) IN
    /\ run[r].pc = "write"
    /\ models' = Append(models, [run |-> r, version |-> run[r].current + 1, hits |-> hits])
    /\ eval' = [eval EXCEPT ![r] = "COMPLETED"]
    /\ conflict' = [c \in ConflictIds |->
                      IF c[1] = r /\ <<c[2], c[3]>> \in ConflictPairs(hits)
                        THEN [status |-> "OPEN", by |-> NoOne] ELSE conflict[c]]
    /\ run' = [run EXCEPT ![r].pc = "done"]
    /\ UNCHANGED <<fact, started, overrides, resolver>>

\* A query or the transaction throws, which is rolled back.
StepFails(r) ==
    /\ "step" \in Faults
    /\ run[r].pc \in {"fetch", "write"}
    /\ run' = [run EXCEPT ![r].pc = "catch"]
    /\ UNCHANGED <<fact, tables, resolver>>

Catch(r) ==
    /\ run[r].pc = "catch"
    /\ eval' = [eval EXCEPT ![r] = "FAILED"]
    /\ run' = [run EXCEPT ![r].pc = "failed"]
    /\ UNCHANGED <<fact, started, models, conflict, overrides, resolver>>

\* No row tells of it: the catch branch's own update throws, the creation of the
\* evaluation does, outside the try, or the process is killed.
RunLost(r) ==
    /\ \/ "catch" \in Faults /\ run[r].pc = "catch"
       \/ "step" \in Faults /\ run[r].pc = "create"
       \/ "kill" \in Faults /\ InProgress(r)
    /\ run' = [run EXCEPT ![r].pc = "lost"]
    /\ UNCHANGED <<fact, tables, resolver>>

----------------------------------------------------------------------------
(* resolveConflict *)

\* The row read here, outside the transaction, decides whether there is anything to do.
ReadConflict(v, c, resolution) ==
    /\ resolver[v].pc = "unused"
    /\ SerialResolvers => \A w \in Resolvers : ~Resolving(w)
    /\ conflict[c].status # "ABSENT"
    /\ resolver' = [resolver EXCEPT ![v] =
                      [pc |-> IF conflict[c].status = "RESOLVED" THEN "done" ELSE "resolve",
                       conflict |-> c, resolution |-> resolution]]
    /\ UNCHANGED <<fact, tables, run>>

\* The transaction: the override, and the conflict's row with the override's id.  IGNORE
\* writes resolvedByOverrideId undefined, which leaves the column alone.
Resolve(v) ==
    LET c == resolver[v].conflict
        loser == IF resolver[v].resolution = "OVERRIDE_A" THEN c[2] ELSE c[3]
    IN
    /\ Resolving(v)
    /\ IF resolver[v].resolution = "IGNORE"
         THEN /\ conflict' = [conflict EXCEPT ![c].status = "IGNORED"]
              /\ UNCHANGED overrides
         ELSE /\ conflict' = [conflict EXCEPT ![c] = [status |-> "RESOLVED", by |-> v]]
              /\ overrides' = overrides \cup {[rule |-> loser, conflict |-> c, by |-> v]}
    /\ resolver' = [resolver EXCEPT ![v].pc = "done"]
    /\ UNCHANGED <<fact, eval, started, models, run>>

ResolveFails(v) ==
    /\ "step" \in Faults
    /\ Resolving(v)
    /\ resolver' = [resolver EXCEPT ![v].pc = "failed"]
    /\ UNCHANGED <<fact, tables, run>>

----------------------------------------------------------------------------

Advance(r) ==
    \/ CreateEvaluation(r)
    \/ FetchRuleSets(r) \/ FetchOverrides(r) \/ FetchModel(r)
    \/ Evaluate(r) \/ Write(r) \/ StepFails(r) \/ Catch(r) \/ RunLost(r)

Next ==
    \/ \E f \in Facts : ChangeFact(f)
    \/ \E r \in Runs :
        \/ \E given \in Facts \cup {NoFact}, picked \in Filters : ReadProject(r, given, picked)
        \/ Advance(r)
    \/ \E v \in Resolvers :
        \/ \E c \in ConflictIds, resolution \in Resolution : ReadConflict(v, c, resolution)
        \/ Resolve(v) \/ ResolveFails(v)

SafeSpec == Init /\ [][Next]_vars

\* The event loop runs every continuation of a run whose query has been answered.
Spec == SafeSpec /\ \A r \in Runs : WF_vars(Advance(r))

----------------------------------------------------------------------------
(* What the code keeps *)

TypeOK ==
    /\ fact \in Facts
    /\ eval \in [Runs -> EvaluationStatus]
    /\ started \in Seq(Runs)
    /\ models \in Seq(ModelRecord)
    /\ conflict \in [ConflictIds -> ConflictRecord]
    /\ overrides \subseteq OverrideRecord
    /\ run \in [Runs -> RunRecord]
    /\ resolver \in [Resolvers -> ResolverRecord]

\* An evaluation says COMPLETED exactly when its one requirements model exists, whatever
\* throws or dies on the way and however runs overlap: the transaction writes both, and a
\* failure after it can no longer happen.
ModelsOf(r) == {k \in DOMAIN models : models[k].run = r}

EvaluationMatchesModel ==
    /\ \A k, n \in DOMAIN models : models[k].run = models[n].run => k = n
    /\ \A r \in Runs : eval[r] = "COMPLETED" <=> ModelsOf(r) # {}

\* A model never keeps silent about two of its rules that state different values for one
\* key, and no conflict is reported but between two rules of the evaluation's own model.
Clash(a, b) ==
    /\ a < b /\ ConflictKey[a] = ConflictKey[b] /\ ConflictKey[a] # NoKey
    /\ ConflictValue(a) # ConflictValue(b)

ClashesReported ==
    /\ \A k \in DOMAIN models : \A a, b \in models[k].hits :
        Clash(a, b) => conflict[<<models[k].run, a, b>>].status # "ABSENT"
    /\ \A c \in ConflictIds : conflict[c].status # "ABSENT" =>
        \E k \in ModelsOf(c[1]) : {c[2], c[3]} \subseteq models[k].hits

\* Once an override has disabled a rule, no evaluation created from then on applies it:
\* a resolved conflict does not come back.
DisabledStaysOut ==
    \A k \in DOMAIN models : models[k].hits \cap run[models[k].run].barred = {}

\* With one run at a time the versions number the models in order, without gap or repeat,
\* over failed and lost runs alike.
VersionsCount == \A k \in DOMAIN models : models[k].version = k

\* With one run at a time, what getLatestRequirements returns, and documents are built
\* from, comes from the evaluation that was started last of those that completed.
LatestRunWins ==
    models # <<>> => \A k \in DOMAIN started :
        (\E n \in DOMAIN started : n < k /\ started[n] = LatestRequirements.run)
            => eval[started[k]] # "COMPLETED"

\* With one resolver at a time every override can be traced, and rolled back, from the
\* conflict it resolves: a conflict never disables a rule twice over, or both of them.
OverrideTraceable == \A o \in overrides : conflict[o.conflict].by = o.by

\* Where the catch branch's own update works and the process lives, no evaluation is left
\* RUNNING.
EvaluationsSettle == \A r \in Runs : eval[r] = "RUNNING" ~> eval[r] # "RUNNING"

=============================================================================
