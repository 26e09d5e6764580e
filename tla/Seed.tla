-------------------------------- MODULE Seed --------------------------------
(***************************************************************************)
(* The demonstration data (prisma/seed.ts) and the script that installs it *)
(* when development starts (scripts/dev-with-db.js).  The seed is a long   *)
(* run of single statements without a transaction; one that fails, or the  *)
(* death of the process, leaves what was written so far, and the script    *)
(* runs it again from the beginning.  Clients work on the data meanwhile   *)
(* and in between.                                                         *)
(***************************************************************************)
EXTENDS Naturals, Sequences, SequencesExt

CONSTANTS
    Attempts,       \* how often the seed is run, at most
    MaxTouched      \* how often clients change what it has seeded, at most

ASSUME SeedAssumption == Attempts \in Nat \ {0} /\ MaxTouched \in Nat

VARIABLES
    db,         \* the rows there are, by their keys, each with who wrote it last: "seed" or "client"
    seeding,    \* the run: of which script, the how manieth, its step, the next statement of that, how it ended
    cut,        \* history: the nodes at whose creation a run broke off
    untouched,  \* history: clients have done nothing since the run began
    touched     \* history: how often clients did something

seedVars == <<db, seeding, cut, untouched, touched>>

----------------------------------------------------------------------------
(* What is declared *)

ComponentTypes == <<"CO2_COMPRESSOR", "CO2_EVAPORATOR", "CO2_PIPE", "CO2_HEAT_EXCHANGER",
                    "SAFETY_VALVE", "EXPANSION_VALVE", "GAS_SENSOR">>

\* Components, each with its type.
DemoComponents == <<
    <<"compressor", "CO2_COMPRESSOR">>, <<"evaporator", "CO2_EVAPORATOR">>, <<"safety", "SAFETY_VALVE">>,
    <<"expansion", "EXPANSION_VALVE">>, <<"gas-sensor", "GAS_SENSOR">> >>

\* Nodes: of the project, of each component, and of its documents.
DemoNodes == <<"project">> \o [i \in DOMAIN DemoComponents |-> DemoComponents[i][1]]
                \o <<"fdv", "ce", "risk">>

DemoEdges == [i \in DOMAIN DemoComponents |-> <<"project", DemoComponents[i][1], "CONTAINS">>]
                \o [i \in DOMAIN DemoComponents |-> <<DemoComponents[i][1], "fdv", "FEEDS">>]
                \o << <<"fdv", "ce", "DEPENDS_ON">>, <<"fdv", "risk", "DEPENDS_ON">> >>

\* Audits, with how many rows of each kind they have.
DemoAudits == <<
    [id |-> "iso27001", checklist |-> 3, finding |-> 2, action |-> 3],
    [id |-> "iso9001", checklist |-> 2, finding |-> 0, action |-> 1] >>

Templates == <<"FDV_MAIN_V1", "CE_PED_V1", "NS370_COMPLIANCE">>

\* Rule sets with their rules, each of which has one source.
RuleSets == <<
    <<"TEK17_CORE", <<"TEK17-6-3", "TEK17-8-1">>>>, <<"EU_PRESSURE_EQUIPMENT", <<"PED-ANNEX-I-2.2">>>>,
    <<"NS_EN_378", <<"NSEN378-ALARM", "NSEN378-VENTILATION">>>>,
    <<"TERMOTEAM_BASELINE", <<"TT-COMP-REDUNDANCY", "TT-GAS-SENSOR">>>> >>

\* The rule sets of seed-init.ts.
InitRuleSets == <<
    <<"GLOBAL_EU_CORE", <<"REQ_FDV_PSVALUE", "REQ_CE_PED", "REQ_RISK_ASSESSMENT">>>>,
    <<"TENANT_CO2_CORE", <<"REQ_CUSTOMER_CONTACT", "REQ_MAINTENANCE_TASK">>>> >>

SeededRules == FlattenSeq([i \in DOMAIN RuleSets |-> RuleSets[i][2]])

----------------------------------------------------------------------------
(* Statements.  keys are the rows it writes, needs those it refers to.  A step is a sequence  *)
(* of statements, a script one of steps; when a step finds its row, the rest of it is skipped. *)

Statement(does, keys, needs) == <<[does |-> does, keys |-> keys, needs |-> needs]>>

Upsert(key, needs)      == Statement("upsert", {key}, needs)
DeleteMany(keys)        == Statement("delete", keys, {})
CreateMany(keys, needs) == IF keys = {} THEN <<>> ELSE Statement("create", keys, needs)
FindUnique(key)         == Statement("find", {key}, {})

\* A step for each element.
EachOf(seq, Of(_)) == [i \in DOMAIN seq |-> Of(seq[i])]

\* The source of a rule has no identifier of its own: it is told apart by the run that creates it.
Source(rule, run) == <<"source", rule, run>>
Sources(rule)     == {Source(rule, run) : run \in 1..Attempts}
Children(kind, audit) == {<<kind, audit.id, n>> : n \in 1..audit[kind]}

SeedArchivePolicy  == <<Upsert(<<"policy">>, {})>>
SeedTenant         == <<Upsert(<<"tenant">>, {<<"policy">>})>>
SeedTemplates      == EachOf(Templates, LAMBDA t : Upsert(<<"template", t>>, {}))
SeedComponentTypes == EachOf(ComponentTypes, LAMBDA t : Upsert(<<"type", t>>, {}))

----------------------------------------------------------------------------
(* Broken variants of operators below; they are no part of the specification *)

\* The sources of a rule are created beside those it has.
SeedRuleAnew(rule, set, run) ==
    Upsert(<<"rule", rule>>, {<<"set", set>>}) \o CreateMany({Source(rule, run)}, {<<"rule", rule>>})

----------------------------------------------------------------------------

\* A rule is looked up, then updated or created; its sources are replaced.
SeedRule(rule, set, run) ==
    Upsert(<<"rule", rule>>, {<<"set", set>>})
    \o DeleteMany(Sources(rule))
    \o CreateMany({Source(rule, run)}, {<<"rule", rule>>})

\* A set is looked up, then updated or created.
SeedRuleSets(run) ==
    FlattenSeq(EachOf(RuleSets, LAMBDA set :
        <<Upsert(<<"set", set[1]>>, {})>> \o EachOf(set[2], LAMBDA rule : SeedRule(rule, set[1], run))))

\* A node that is there is left as it is, with the revision it has or lacks.
CreateNodeWithRevision(n) ==
    FindUnique(<<"node", n>>)
    \o CreateMany({<<"node", n>>}, {<<"component", c[1]>> : c \in {d \in ToSet(DemoComponents) : d[1] = n}})
    \o CreateMany({<<"revision", n>>}, {<<"node", n>>})
    \o Statement("update", {<<"current", n>>}, {<<"node", n>>, <<"revision", n>>})

EnsureNodeEdge(e) == Upsert(<<"edge", e>>, {<<"node", e[1]>>, <<"node", e[2]>>})

SeedDemoProject ==
    <<Upsert(<<"project">>, {<<"tenant">>})>>
    \o EachOf(DemoComponents, LAMBDA c : Upsert(<<"component", c[1]>>, {<<"project">>, <<"type", c[2]>>}))
    \o EachOf(DemoNodes, CreateNodeWithRevision)
    \o EachOf(DemoEdges, EnsureNodeEdge)

\* The rows of one kind that an audit has are replaced.
SeedChildren(kind, audit) ==
    DeleteMany(Children(kind, audit)) \o CreateMany(Children(kind, audit), {<<"audit", audit.id>>})

SeedAudits ==
    FlattenSeq(EachOf(DemoAudits, LAMBDA audit :
        <<Upsert(<<"audit", audit.id>>, {<<"project">>})>>
        \o EachOf(<<"checklist", "finding", "action">>, LAMBDA kind : SeedChildren(kind, audit))))

SeedMain(run) == SeedArchivePolicy \o SeedTenant \o SeedTemplates \o SeedRuleSets(run)
             \o SeedComponentTypes \o SeedDemoProject \o SeedAudits

\* A rule set is created with its rules and their sources in one statement, or left as it is.
EnsureRuleSet(set, run) ==
    FindUnique(<<"set", set[1]>>)
    \o CreateMany({<<"set", set[1]>>} \cup UNION {{<<"rule", rule>>, Source(rule, run)} : rule \in ToSet(set[2])}, {})

InitMain(run) ==
    << FindUnique(<<"default tenant">>) \o CreateMany({<<"default tenant">>}, {}),
       FindUnique(<<"default project">>) \o CreateMany({<<"default project">>}, {<<"default tenant">>}) >>
    \o EachOf(InitRuleSets, LAMBDA set : EnsureRuleSet(set, run))

\* The steps of each run of each script.
Scripts == [script \in {"seed", "init"} |->
              [run \in 1..Attempts |-> IF script = "seed" THEN SeedMain(run) ELSE InitMain(run)]]

----------------------------------------------------------------------------

SInit ==
    /\ db = <<>> /\ cut = {} /\ touched = 0 /\ untouched = TRUE
    /\ \E script \in {"seed", "init"} : seeding = [script |-> script, run |-> 1, step |-> 1, at |-> 1, pc |-> "running"]

Running == seeding.pc = "running"
Script  == Scripts[seeding.script][seeding.run]
Step    == Script[seeding.step]
Pending == Step[seeding.at]                         \* the next statement
Stored(keys) == keys \subseteq DOMAIN db
\* The nodes whose creation is not finished.
Unfinished(keys) == {n \in ToSet(DemoNodes) : <<"node", n>> \in keys /\ <<"current", n>> \notin keys}

\* The rows of keys are written, by the seed.
Written(keys) == db' = [r \in keys \cup DOMAIN db |-> IF r \in keys THEN "seed" ELSE db[r]]

\* The next statement is executed as a whole.
Executed ==
    /\ Stored(Pending.needs)
    /\ \/ Pending.does \in {"upsert", "update"} /\ Written(Pending.keys)
       \/ Pending.does = "create" /\ Pending.keys \cap DOMAIN db = {} /\ Written(Pending.keys)
       \/ Pending.does = "delete" /\ db' = [r \in (DOMAIN db) \ Pending.keys |-> db[r]]
       \/ Pending.does = "find" /\ UNCHANGED db

Found == Pending.does = "find" /\ Stored(Pending.keys)

Execute ==
    /\ Running /\ Executed
    /\ seeding' = IF seeding.at < Len(Step) /\ ~Found THEN [seeding EXCEPT !.at = @ + 1]
                  ELSE IF seeding.step < Len(Script) THEN [seeding EXCEPT !.step = @ + 1, !.at = 1]
                  ELSE [seeding EXCEPT !.pc = "ended", !.step = 1, !.at = 1]
    /\ UNCHANGED <<cut, untouched, touched>>

\* The statement is refused or lost, or the process is killed, before or after it is executed.
Break ==
    /\ Running
    /\ Executed \/ UNCHANGED db
    /\ cut' = Unfinished(DOMAIN db')
    /\ seeding' = [seeding EXCEPT !.pc = "broken", !.step = 1, !.at = 1]
    /\ UNCHANGED <<untouched, touched>>

Start(script) ==
    /\ ~Running /\ seeding.run < Attempts
    /\ seeding' = [script |-> script, run |-> seeding.run + 1, step |-> 1, at |-> 1, pc |-> "running"]
    /\ untouched' = TRUE
    /\ UNCHANGED <<db, cut, touched>>

\* The seed is run again, after a failure or when development is started anew.
RunPrismaCommand == Start("seed")

RunSeedInit == Start("init")

\* What clients do to the project: a change of it or of a node,
UpdateRow(r) ==
    /\ r[1] \in {"project", "node"}
    /\ db' = [db EXCEPT ![r] = "client"] /\ UNCHANGED cut

\* two nodes that are unlinked,
RemoveLink(r) ==
    /\ r[1] = "edge"
    /\ db' = [s \in (DOMAIN db) \ {r} |-> db[s]] /\ UNCHANGED cut

\* and a node that is deleted, which the database allows when it has neither a revision nor
\* an edge.
RemoveNode(n) ==
    /\ Stored({<<"node", n>>}) /\ ~Stored({<<"revision", n>>})
    /\ \A r \in DOMAIN db : r[1] = "edge" => n \notin {r[2][1], r[2][2]}
    /\ db' = [s \in (DOMAIN db) \ {<<"node", n>>} |-> db[s]]
    /\ cut' = cut \ {n}

ClientChange ==
    /\ touched < MaxTouched
    /\ (\E r \in DOMAIN db : UpdateRow(r) \/ RemoveLink(r)) \/ \E n \in ToSet(DemoNodes) : RemoveNode(n)
    /\ touched' = touched + 1 /\ untouched' = FALSE
    /\ UNCHANGED seeding

SNext == Execute \/ Break \/ RunPrismaCommand \/ RunSeedInit \/ ClientChange

SSpec == SInit /\ [][SNext]_seedVars

----------------------------------------------------------------------------

\* Each rule of a set is there, with one source.
WithSource(rules) ==
    \A rule \in rules :
        Stored({<<"rule", rule>>}) /\ \E source \in Sources(rule) : Sources(rule) \cap DOMAIN db = {source}

\* What seed-init.ts declares, and what seed.ts does.
InitDeclared == WithSource(UNION {ToSet(set[2]) : set \in ToSet(InitRuleSets)})

SeedDeclared ==
    /\ \A r \in {<<"policy">>, <<"tenant">>, <<"project">>}
                \cup {<<"template", t>> : t \in ToSet(Templates)}
                \cup {<<"type", t>> : t \in ToSet(ComponentTypes)}
                \cup {<<"component", c[1]>> : c \in ToSet(DemoComponents)}
                \cup UNION {Children(kind, audit) : kind \in {"checklist", "finding", "action"},
                                                    audit \in ToSet(DemoAudits)} :
          Stored({r}) /\ db[r] = "seed"
    /\ WithSource(ToSet(SeededRules))
    /\ \A e \in ToSet(DemoEdges) : Stored({<<"edge", e>>, <<"node", e[1]>>, <<"node", e[2]>>})
    /\ \A n \in ToSet(DemoNodes) :
          Stored({<<"node", n>>}) /\ (n \notin cut => Stored({<<"revision", n>>, <<"current", n>>}))

\* Wherever earlier runs broke off, a run that ends well, with no client in between, leaves
\* everything that is declared: the catalogue and the project as declared, each rule with one
\* source, each audit with its rows, every node and edge, and every node with its first revision
\* as the current one, but for the nodes at whose creation a run broke off.
SeedingRepairs ==
    seeding.pc = "ended" /\ untouched =>
      IF seeding.script = "init" THEN InitDeclared ELSE SeedDeclared
=============================================================================
