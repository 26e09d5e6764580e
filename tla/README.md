# A TLA+ model of ISO-DOC

TLA+ modules that model the core of the backend under `src/backend/src/`, its seed, and the pages of
the client under `src/frontend/` that keep state of their own; TLC configurations that check them on
small instances; and proofs, checked by TLAPS, for every value of the constants. Every definition is
translated from the source; `PROJECT.json` ("map") names the lines each one stands for. Where the
documentation, or a text the program shows its users, says something the code does not do, the
disagreement is a property of its own, checked by a run that is expected to find it violated.

## 1. The system

A NestJS server (several processes may run) over a PostgreSQL database (Prisma), an object store or
the local disk, two caches in memory, and external services: embeddings, chat and a vector search
inside the database. All coordination between calls is by database rows, but for one queue in
memory. A handler is a sequence of awaited queries; between two of them any other call may run, the
process may die, and each query may throw. That is the grain of every model of the server: **one
awaited statement is one step, what runs between two awaits is atomic, a `$transaction` is one step
(or its first read and its commit, where that read matters)**. The client is React: a request is
sent, reaches the server and is answered in steps of its own, **in any order; what React does between
two events, the rendering and the effects it triggers, is part of the step that causes it**; a handler
that goes on after an await sees the variables of the render it was made in.

### Inventory

| Component | State it keeps | Operations | Interacts with | Hard behaviour | What makes it correct |
|---|---|---|---|---|---|
| Ingestion (`modules/ingestion`) | `files`, `ingestion_jobs`, `file_variants`; queue and flag in memory | register a file, PUT its content, multi-file POST, checksum mismatch, the queue's loop | object store, client | one call drains for all; checksum tested long before it matters; objects on disk truncated and filled in place; no transaction around object, row and job; restarts forget the queue | a declared checksum is never betrayed; one drainer; nobody waits for ever; no job is abandoned |
| Rule engine (`modules/rule-engine`) | `rule_evaluations`, `rule_hits`, `rule_conflicts`, `rule_overrides`, `requirements_models`; a cache of rule-set lists | `runRuleEngine`, `evaluateCondition`, `resolveConflict`, `getLatestRequirements`, `listRuleSets` | reads projects' facts; its model feeds documents and retrieval | version read outside the transaction; runs that die RUNNING; resolutions race; JavaScript's conversions; a list cached after it was invalidated | evaluation and model agree; clashes are reported; a disabled rule stays out; what is known decides; lists are of bounded age |
| Projects (`modules/projects`) | `projects` with columns and a JSON of facts, `project_facts` | create and update a project | facts feed the rule engine | facts are written in three places, row by row, without a transaction | saving again repairs; the engine knows what was stated |
| Nodes (`modules/nodes`) | `nodes`, `node_edges` | CRUD, links, revision lists | builder, Kiuva and PATCH write one row | PATCH of everything a client loaded | an edit is not lost |
| Document builder (`modules/document-builder`) | `node_revisions`, `generation_snapshots`, `document_segments`, provenance | `generateNode` | reads node, template, requirements model; asks retrieval | long gap between read and write | history numbered and complete; input survives |
| Kiuva sign-off (`modules/kiuva`) | `kiuvaStatus`, `kiuvaSignatures` of a node | three signatures in order, a reset that always throws | writes the node row | read, test, write back the whole object | signers differ; no step without the one before; in turns, nobody's signature is lost |
| Maintenance, tasks (`modules/maintenance`, `modules/tasks`) | `maintenance_events`, tasks, report nodes | create an event; detached processing of it; tasks by hand | chat model, inbox | fire and forget; one statement per task | an event is settled; it has all its tasks or a first part of them |
| RAG retrieval (`modules/rag/rag.service.ts`) | in-memory cache with expiry | `getProjectContext`, an embedding and two searches, scores, filters | builder | the key omits inputs; entries outlive segments; limits are applied before the filters | an answer is recent, and for whom it was computed |
| Document indexing (`modules/rag/document-indexing.service.ts`) | `document_segments` of a file | delete, embed, insert | retrieval; nothing calls it yet | not atomic, overlapping runs; early ends that leave what there was | indexing again repairs |
| Project documentation (`modules/project-docs`) | attachments and generated files on disk, their rows | upload, generate, regenerate, tree | chat model, disk, metadata of the project | disk and row apart; metadata change meanwhile | a row has its file; an answered tree is complete; regenerating repairs |
| Seed (`prisma/seed.ts`, the scripts that run it) | the demonstration project | run, break off, run again | clients | hundreds of statements, no transaction | a run that ends well repairs |
| Task inbox, documents, document view, project page, audits, compliance (`frontend/app`) | what each has loaded, selected, typed | loads, saves, uploads, generations, deletions | REST | late, lost and reordered answers; effects that write what was loaded; early changes taken back | what is shown is what is there, of one project, and nothing typed is lost |
| Object storage, AI client factory, tenants, auth, API keys, templates, public API, other pages | one row or object per call | CRUD, I/O | – | none beyond the database's | – |

Components, their status here and the reason for what is left out are in `PROJECT.json`
("components"); what is hard to test in them, each at its line, under "hazards".

## 2. The modules

| Module | Models | Instance | Proofs |
|---|---|---|---|
| `WorkQueue` | abstract: what the ingestion queue promises, one file at a time in order of submission | by `Ingestion` | `Ingestion_proofs` |
| `Ingestion` | ingestion service and in-memory queue, implements `WorkQueue` | `MCIngestion` | `Ingestion_proofs` |
| `RuleEngine` | runs of the rule engine and resolutions of conflicts of one project | `MCRuleEngine` | `RuleEngine_proofs` |
| `NodeWorkflow` | one document node under clients, generations and rule runs | `MCNodeWorkflow` | `NodeWorkflow_proofs` |
| `Kiuva` | the sign-off of one node | `MCProjectServices` | `ProjectServices_proofs` |
| `RuleConditions` | the condition language of rules, with a reference | through `ProjectFacts` | `ProjectFacts_proofs` |
| `ProjectFacts` | the copies of a project's facts and what the engine reads | `MCProjectServices` | `ProjectFacts_proofs` |
| `ProjectDocs` | the documentation folder on disk and its rows | `MCProjectServices` | `ProjectDocs_proofs` |
| `Seed` | the seed and its scripts, which break off and run again | `MCProjectServices` | `ProjectServices_proofs` |
| `Turns` | whether clients take turns | through `Kiuva`, `ProjectFacts` | – |
| `ProjectServices` | extends `Kiuva`, `ProjectFacts`, `ProjectDocs`, `Seed` | `MCProjectServices` | `ProjectServices_proofs` |
| `Clock` | the clock both caches expire by | through `Caches` | – |
| `Retrieval` | retrieval with its cache, and indexing | `MCCaches` | `Caches_proofs` |
| `RuleSetCache` | the cache of `listRuleSets` | `MCCaches` | `Caches_proofs` |
| `Caches` | both caches on one clock | `MCCaches` | `Caches_proofs` |
| `Maintenance` | maintenance events and their tasks | `MCPages` | `Pages_proofs` |
| `TaskInbox` | the inbox beside `Maintenance` | `MCPages` | `Pages_proofs` |
| `Documents`, `DocumentView`, `ProjectPage`, `Audits`, `Compliance` | one page of the client each | `MCPages` | `Pages_proofs` |
| `Pages` | one of the six pages, or maintenance events beside none | `MCPages` | `Pages_proofs` |

Definitions whose comment calls them a *broken variant* (`ReceiveUntested`, `CommitUnconstrained`,
...) are no part of a specification. Each is an action as a plausible slip would have it; put in
the action's place it makes one property fail, which is how we know that the property says
something. `PROJECT.json` ("mutants") pairs them up.

`ProjectServices` and `Pages` put components side by side that share no state: a step of one can
neither be enabled nor told by another. A behaviour therefore uses one of them (`service`, `page`), and
what the others would keep stays as it begins; their union is checked in one run without the
product of their states. `Caches` is a real composition: time passes for both at once, and only
where no call outlasts its bound.

### `Ingestion`

Rows are `file`, `job`, `variant`; `object` is the object store, where an object is the contents its bytes may
come from (`of`), whether every byte is there (`whole`), and the call that opened it last (`by`); `queue`,
`processing` and `worker` belong to a process and are lost with it. `call[u]` is an HTTP call: its program
counter is the statement it will execute next, and its other fields are the local variables that survive an
`await` (the content received, the checksum read at the start). `worker[i]` is the loop of `processQueue`, run
by the call `owner` that found the flag down; that call is `"draining"` and goes on when the loop ends, as its
`await` does.

- `RequestUpload`, `IngestFile` (`CreateFile`, `CreateJob`): `createPendingFile`, two statements.
- `Receive`, `FlagFile`, `FlagJob`: `receiveUploadedFile` up to the checksum test,
  and `handleChecksumMismatch`.
- `OpenObject`, `FillObject`: the local driver, the default, which truncates the object and fills it in place,
  so that a call that throws or is killed in between leaves it short of bytes, and two that overlap may mix them.
  `PutObject`, `PutUnanswered`: the Supabase driver, which replaces the object at once, the second without the
  call getting to know. `StorageDriver` says which of them is configured.
- `UpdateRow`, `MarkRunning`, `Enqueue`, `Finish`, `Reply`: `persistUploadedFile`
  statement by statement, then the answer.
- `ReadFile`, `WriteVariants`, `StubFails`, `MarkFailed`, `NextJob`, `WorkerDies`: the loop,
  `handleJob` and its catch branch; `WorkerDies` is an exception from the two statements outside
  `handleJob`'s `try`, which also skips the lowering of the flag.
- `RequestFails`: any statement of a call throws. `Crash`: a process is killed and restarted.

Abstractions: a content is its own checksum; a file has one storage key; a POST of several files
is as many calls (the code handles them one after the other); classification, metadata and the
placeholder variants are data no property is about; a statement of the database that throws has had no effect
(a commit whose answer is lost is excluded); a request to Supabase has its effect before its call ends, or none
(one that is applied after its process was killed is excluded); a PUT of a file whose row does not exist ends at
once. `SerialClients` restrains files registered without a checksum only: nobody sends the content of one while a
call on it is open. Calls on files with a declared checksum overlap in every run.
What the model reaches and no property judges: a job that ends COMPLETED although its file is
flagged, after a wrong upload arrived while a right one was queued.

### `RuleEngine`

All state is in the database. `models` and `started` are tables in the order of `createdAt` and
`startedAt`, taken to be the order of the commits. `run[r]` is a call of `runRuleEngine`:
`ReadProject`, `CreateEvaluation`, the three queries of its `Promise.all` in any order
(`FetchRuleSets`, `FetchOverrides`, `FetchModel`), `Evaluate`, the transaction `Write`, and
`StepFails`, `Catch`, `RunLost` for exceptions, the catch branch and a killed process.
`resolver[v]` is a call of `resolveConflict`: `ReadConflict` outside the transaction, `Resolve`
inside. `ChangeFact` is `updateProject`.

`Hits`, `ConflictValue`, `SplitGroup`, `ConflictPairs` are the pure part: which rules apply, and
which pairs of them are reported. A rule is its position in the engine's order; a condition is the
set of facts it holds for (`RuleConditions` interprets conditions). Left out: the aggregation of the
requirements payload, warnings, and `scope`, which runs store and never use; `forcedOutcome` and
adjustments of an override exist in the schema but nothing writes them. What the model reaches and no
property judges: if a group has two values, all its pairs are reported, those that agree too; and two
resolutions of one conflict at once write two overrides, one of which no conflict names.

### `NodeWorkflow`

One node: its row (`node`), its `revisions`, the number of the latest requirements `model`; its data are the
values of the template's fields, kept apart by section and id, and the remediation form. `Template` gives the
ids in the order of the sections, and may repeat one in another section;
`gen[g]` is a call of `generateNode` with what it holds between its reads and its transaction;
`view[v]` is a client that shows the node and saves it by PATCH.

- `CreateNode` (projects service, with first revision), `CreateBareNode` and `Remove` (nodes
  service; a node with a revision cannot be deleted, its foreign key restricts).
- `Load`, `Save`, `Close`, `SetStatus`: clients. `Save` sends all data as loaded, changed in one
  field or the remediation form; the API takes any. (`DocumentView` models the page itself.)
- `ReadNode`, `ReadRequirements`, `Retrieve`, `ReadLast`, `Commit`, `GenerateFails`:
  `generateNode`. `ReadLast` and `Commit` are the transaction, which under READ COMMITTED may read
  a number another transaction then takes; the unique constraint is the guard of `Commit`.
- `Payloads` is what the builder may make of the data it read. `Existing` is the value it finds for a field: it
  looks by id alone and takes the first of the `Namesakes`, whatever section the field is in, so that the value
  of a later section (`Shadowed`) gives way to that of an earlier one. `Filled` is what becomes of it: a value
  stays, a missing one may come from facts, a requirement's default or retrieval, one that JavaScript counts as
  false is replaced by what retrieval finds; the remediation form is dropped.

Left out: snapshot, segments and provenance, which are written with the revision in the one transaction and
refer to nothing else; a change of the template; a revision's `newData`. `Found` and `Written` bound what
retrieval comes up with and what clients write. `replaced` (what the node held when a revision was written) is
history for the properties.

`turns` is chosen once: TRUE restricts behaviours to those where nobody begins while a client or a
generation is at the node (`Turn`, the "not locked by another task" of
`docs/termoteam_blueprint/agent_handbook/document-builder.md`, which the code does not enforce).
Properties that need it are named `Turns...`; the others hold for both. `Kiuva` and `ProjectFacts` take
the same choice from `Turns`.

### `Kiuva`

`signature` is the pair of JSON columns, `signing[s]` a call of `signRole` with the sheet it is
about to write. `ReadNode` is the read with both tests, `WriteSignature` the update of both
columns. Users are what a caller may pass: proper ids, the empty string, `undefined`; `Signed` and `UserOf`
are JavaScript's truth and `?.userId` of them. The reset is no action: it writes a plain `null` to two nullable
JSON columns, which the Prisma client refuses (it asks for `DbNull` or `JsonNull`), so it throws each time and
the sheet stays as it is.

### `RuleConditions` and `ProjectFacts`

`Form` gives the syntax of the conditions of an instance; a value is what JSON can hold (a number, a boolean, a
word in some spelling, a list, an object, null) or `undefined`. `EvaluateCondition(facts)` is a recursive
function over the conditions, with `Test` the comparisons as JavaScript makes them: null and the empty list are
the number 0, a list of one element that of the element, `contains` looks for the text of any value in a word,
spelling does not count where the code lowers it, two lists are never the same, an unknown operator holds. What
`Number()` reads in a word, the word `String()` makes of another value, and which word contains which, are
tables (`Reads`, `Text`, `PartOf`), held to be JavaScript's by `TextAssumption`.

`Truths` is the reference, which makes none of these conversions: the set of verdicts a condition can have of
the facts that are recorded, whatever the others are. A test has a definite answer (`Compare`) where it
compares like with like or asks what is there (`Sure`), and may have either elsewhere. So a conversion may
decide what the facts leave open, but must not turn what they decide.

`ProjectFacts` keeps the facts where the service does: `column`, `facts` (the JSON), `row` (`project_facts`).
`Begin` reads the project, `Write` updates columns and JSON and sends all upserts at once (`pending`);
`UpsertRow`, `UpsertFails`, `Answer`, `WriteFails`, `Kill` follow them. A failed call's remaining upserts go
on. `EngineFacts` is what a run of the engine then reads, rows last. A dto states facts in fields, one per
column, and in a map `facts` that may name anything, the columns among it, and is laid over them
(`BuildFacts`). `latest`, `stated` and `overlaid` (the columns named in a dto's `facts`) are history: of a
column in `overlaid`, all that was ever stated counts, since an update that says nothing of it writes the
column's value over what its rows had. Left out: `metadata`, which the engine also overlays; tasks and nodes,
which are other tables. What the code does and the model shows: a null does not withdraw a fact, and a column
cannot be cleared.

### `ProjectDocs`

`disk` has a file per place, a place being a root folder and a path, both made of the metadata the call
has read (`RootOf`, `PathOf`; two projects may share a folder, two uploads a millisecond and a name);
`rows` and `attached` are the two tables; `request[c]` goes through `todo`, the files still to generate:
`Find`, `Gather` (attachments for the prompt), `Open` (truncates), `Fill`, `UpsertFile`; an upload ends in
`Insert`; a generation in `Hydrate` and `Inject`, the tree. `Fail` is any of them throwing, or the process
dying; `ChangeMeta` is the projects service. Folders, texts and prompts are left out.

### `Seed`

A script is a sequence of steps, a step a sequence of statements `Statement(does, keys, needs)`, as `seed.ts`
and `seed-init.ts` execute them: `keys` are the rows a statement writes, deletes or looks for, `needs` those it
refers to. `db` holds the rows by their keys, with who wrote each last (the seed or a client); `seeding` is the
run, with its step and the next statement of it. When a step finds its row, the rest of it is skipped:
`CreateNodeWithRevision` leaves a node that is there, and `EnsureRuleSet` a rule set. `SeedRule` and
`SeedChildren` delete what there is before they create it anew. A run may break off before or after any
statement (`Break`), another one start, and a client change or delete something (`ClientChange`). Seeded values
are data. One run at a time: two at once can duplicate rule sets and sources and are not modelled. A node at
whose creation a run broke off stays without its revision for ever, which `SeedingRepairs` excepts.

### `Caches`: `Retrieval`, `RuleSetCache`

`entry[q]` is the cache of `queryField`, `field[c]` one call for one field of a document: `Look`, the
embedding (which may throw and fail the call), the two searches, each of which may fail and count as
empty, `Store`. What a search scores a chunk is a constant (`Vector`, `Words`); the rest is the code's: each
search has the `Limit` best of what it `Hits`, the two scores are weighed (`Similarity`), the lexical one relative
to the best row found (`Divisors`), the rows of both are cut to the limit again, filtered by legal class and by
`MinScore` (`Passes`), and the `TopK` best of them are the answer. Ties go either way. An answer is `whole` if no
search behind it failed and no cut left out a row.

`row[r]` says of each segment whether it is there and since when; `indexing[i]` deletes a file's rows by the
ids it has found and inserts the new ones one by one. It may end before that, for want of a file, a node or
text, and leave the rows of an earlier text (`SkipIndexing`), and passes over a chunk that gets no embedding
(`SkipRow`). What is left out: `preferredSources`, which is part of the key, and the ingestion mode, which
filters as the class does; `searchProjectSegments`, which has no cache. `list[c]` is a call of `listRuleSets`,
plain or forced: `Get`, `DeleteGlobal`, `DeleteOwn`, `Find`, `Set`. `Tick` lets a unit of time pass where no
call is older than its bound (`MaxFlight`, `MaxListing`: what "recent" adds to an entry's life), and forgets
what no property can tell any more.

### `Maintenance` and `TaskInbox`

`CreateEvent` stores an event and leaves its processing running, detached: `MarkParsed` (before the `try`),
`Ask` (the model answers something of `Answers`, which `ParseJson` may find to be no JSON), `CreateReport`,
`SuggestedTask` one by one, `Complete`, or `Review`, the catch branch. `StartFails`, `WorkFails`,
`ReviewFails`, `Kill` are the faults. `validates` says which of the two entry points runs: the
standalone server's `ValidationPipe` refuses every body of a maintenance event (`RefuseEvent`), the serverless
handler has no pipe.

The inbox loads `Rows(by)` when it opens, when its filter changes and after each change; the load keeps the
filter it was made with. `op[o]` is one such operation: its request, its effect on the server (`Updated`,
`Inserted`), the answer that arrives (`Changed`) and the load that follows. A request may be lost before it has
an effect, or its answer after (`ChangeFails`); either way there is an alert and no load, so that the list may
be stale at rest. Others change tasks beside it. `unheard` (the tasks touched since the last load was answered)
and `clean` (that load had the inbox to itself) are history. A request applied after its client has given up on it
is not modelled as such: it is to the inbox what another client's change is.

### The other pages

- `Documents`: the list, polled and loaded after operations; tabs; the `docId` parameter, which opens its
  document again after every change of the tabs; deletion, which goes on with the tabs it began with.
- `DocumentView`: one document and its remediation form; two effects that save and restore
  it (`Autosave`, `SetNode`), requests that reach the server in any order.
- `ProjectPage`: the register and the nodes, filled by the project's load, by that of the nodes and by an
  effect; the change of a status shown early and taken back when refused (the two statuses of the page the
  server does not know always are); tasks, and both halves of the rule engine's report.
- `Audits`: the list, created audits, the selection of an audit and an item of its checklist.
- `Compliance`: the project selected, the four reads of its workspace, audits, resolutions, the assistant. The
  Refresh button passes its click event as the project's id and is not modelled.

Left out of them: rendering and wording, and what a page does that changes none of its state
(the specifications of a project, which are never saved; submitting for review, which only alerts).

### Where the models begin

The services are modelled with everything their parameters allow. The `ValidationPipe` of `main.ts` narrows
what HTTP clients can send: it refuses properties without a validation decorator, which
`SignatureDto`, `RunRuleEngineDto` and `IngestFilesDto` have none of. Behaviours behind it are some of the
behaviours here, so what holds here holds there; none of the violated runs needs such a body.

### How the components fit together

`RuleEngine`'s `Write` is `NewModel` of `NodeWorkflow`; `ProjectsService.updateProject` is
`RuleEngine`'s `ChangeFact`, its detail `ProjectFacts`. `Kiuva` and `NodeWorkflow` write disjoint columns of
one row, each naming only its own in its updates. `Retrieval` is what `NodeWorkflow`'s `Retrieve` asks.
`DocumentView`'s requests are `NodeWorkflow`'s `Save`. Ingestion shares no row with the others.

## 3. Runs

| Run | Instance | Properties | What it shows |
|---|---|---|---|
| `ingestion_live` | 2 files, 3 calls, 1 content, 1 process; Supabase; calls and variants may fail; fair | `RunningHasOwner`, `ServesQueue`, `CallsEnd`, `JobsSettle` | the flag and the loop implement `WorkQueue`; every call is answered and every job settles |
| `ingestion_restart` | 2 files, 3 calls, 2 contents, 2 processes, 1 crash, the local driver, every fault; clients take turns on files registered without a checksum and overlap on the others | `DeclaredIntegrity`, `CompletedAnswerIsTrue`, `SettledFileAgrees`, `OriginalImmutable` | a declared checksum holds across failures, uploads that break off and restarts, and what is answered is so |
| `ingestion_wedge` (violation) | one faulty read, fair | `QueuedIsServed` | section 6 |
| `rules_overlap` | 4 rules, 2 facts, 2 runs, 2 resolvers, every fault | `EvaluationMatchesModel`, `ClashesReported`, `DisabledStaysOut` | what holds without any serialisation |
| `rules_turns` | 2 rules, 3 runs, 2 resolvers, one of each at a time, any query may throw; fair | `LatestRunWins`, `OverrideTraceable`, `EvaluationsSettle` | what holds one at a time, and that evaluations settle |
| `node_workflow` | 2 fields of one id in 2 sections, 2 values, 2 generations, 1 client, 2 models; in turns and overlapping | `HistoryNumbered`, `TurnsBackUp`, `TurnsBasis`, `TurnsKeepFilled` | the history of a node, and what a client typed |
| `node_stale` (violation) | as `node_workflow`, overlapping | `ReplacedIsBackedUp` | section 6 |
| `project_services` | sign-off: 3 users, 4 calls; facts: 3 calls, 2 facts, 6 dtos, 29 conditions; documentation: 2 projects, 3 contents of the metadata, 2 calls, 1 change; seed: 2 runs, 1 change by a client | `CompleteByThree`, `StepsInOrder`, `TurnsKeepOthers`, `SavingRepairs`, `TurnsKnowWhatWasStated`, `KnownFactsDecide`, `RowsHaveFiles`, `AnswersAreComplete`, `RegenerationRepairs`, `SeedingRepairs` | the services of a project, each with its faults; every rule condition is evaluated in every state of the facts |
| `caches` | 1 query, files of 1 and 2 chunks, searches of 3 rows and answers of 2; 2 fields and 2 indexings of one file, or 1 field and 2 of the other, or 3 indexings, or 3 lists; clock to 3, lives and bounds of 1; every fault | `AnswersRecent`, `IndexingRepairs`, `ListsRecent` | how old an answer may be, and what one undisturbed indexing puts right |
| `rag_filters` (violation) | the same, callers that allow A and callers that allow A and B | `AnswersFiltered` | section 6 |
| `pages` | no page: 2 events, with up to 3 suggested tasks each; or one of six pages: 1 event with one task and 3 operations at the inbox; 2 documents; 1 document with 3 requests under way; 3 nodes, 2 operations; 4 audits; 2 workspaces with 2 requests under way; 1 failure, 1 change by others; fair | `WholeOrPart`, `InboxShowsFilter`, `TabsSound`, `QuietSaves`, `PageAgrees`, `SelectionSound`, `WorkspaceTrue`, `EventsSettle`, `ListConverges` | the pages show what is there, of what was asked for, whatever comes late; events settle |
| `document_autosave` (violation) | 1 document, 3 requests, no edits | `AutosaveKeepsForm` | section 6 |

The type invariants of the modules with proofs are proved (section 5; that of `ProjectDocs` is part of `DocInv`)
rather than run. Deadlock is not checked: calls
are finite in number, and a system whose calls have all been answered stops.

**Bounds.** A property relates at most two calls to each other, and a third one can come before, between or
after them: that is the reason for the threes. *Ingestion*: three calls let two wait on the queue behind a
draining one, and let a wrong upload come between two right ones; two files, so that a queue holds somebody
else's; a right and a wrong content; two processes, one of which may be killed once: a second crash adds
nothing to a process that has forgotten everything. The driver matters to what is stored and not to the queue:
the object is filled in place where restarts and failures are looked at, and replaced at once in the live run,
whose properties are of calls and jobs. *Rules*: two that disagree and one that agrees with one of them on a
key, and one with no key, reach every case of `ConflictPairs`; three runs give a model before and after the
one in question. *Nodes*: two generations race for a number; one value counts as false and one does not; two
sections with a field of one id are what the builder confuses, and fields of different ids it treats by
themselves; overlapping clients write little (`Written`), since no property is about the values then; two
models, an older and a newer. *Sign-off*: three signatures complete it, a fourth renews or comes late.
*Facts*: one fact that is a column and one that is not; a dto that says nothing, one that states a column, one
that names it under `facts`, and so on; every operator of the conditions on a fact of the right kind, of the
wrong kind and on one that is not there, and nesting two deep. *Documentation*: two contents of the metadata
that share a root folder and differ in a path, one that is incomplete; one file that is copied and two that
are asked for, of which one can be regenerated. *Seed*: the whole seed as it is declared, broken off at any
statement and run again. *Caches*: a life of one unit, calls of one unit, and a clock of three let an entry be
made late, expire, and be asked for again. Two indexings of a file of two chunks may leave four rows, one more
than the limit of a search and two more than an answer has room for (in the code the limit is the greater of
three times that and eight more); the first chunk passes by its vector alone, the second only with its words,
which count for too little beside the first one's. *Pages*: two requests may pass each other, and a third
meets their effect. Events suggest several tasks, one of them twice, where no page is open; beside the inbox
one event with one task is enough, since the inbox reads the tasks' rows and nothing of how they came about
(`InboxEvents`, `InboxAnswers`). The theorems of section 5 need none of these bounds, but that the three
requests a project page begins with have a slot each.

**Reductions.** `Symmetry` and `Symmetric` permute model values that nothing tells apart, in runs without
liveness properties. `Numbered`, where calls are numbers, keeps the behaviours that number them as they arrive;
a renumbering maps every behaviour to such a one. `Used` (in `Caches`), `service` and `page` choose what is
looked at together: section 2 says why nothing is lost. A `page` of none leaves all of them aside.

## 4. Fairness

`Spec` of `Ingestion` and of `RuleEngine` is weakly fair for the next step of each call and loop that is under
way: Node's event loop runs every continuation whose promise has settled, and a query settles, with an answer or
an exception. `PagesFairness` asks the same of the detached work of each maintenance event (`Served`),
and of the page of documents that its interval fires (`Poll`) and that its reads are answered (`Answering`),
with what is there or with a failure. Failures and foreign changes are bounded in number, so the last poll
succeeds. Nothing is asked of clients (they need not call), of faults or of crashes. An exception is one way
for a step to be taken, so fairness never forces success. Everything else is checked for safety alone.

## 5. Proofs

The proof modules extend their component and use only its named assumptions on the constants, each of which
TLC evaluates in the runs of that component: as an `ASSUME` of the module itself where it is to hold of every
use (`IngestionAssumption`, `RuleEngineAssumption`, `SeedAssumption`, ...), of the MC module where it does not
(`ProjectFactsAssumption`, `RulesAssumption`, `ProjectDocsAssumption`). They say what kind of value a constant
is, with these exceptions. `RulesAssumption` has every condition well founded (`ConditionsAssumption`: a
rule's condition is a JSON tree; each `not` has a part), tests facts a project can have, and has numbers be
whole (`Numeric`); the tables of `TextAssumption` are checked in the run, and no proof needs them.
`RetrievalAssumption` has one of the two weights differ from 0, as the code sees to. `PagesAssumption` gives
the page of a project at least three slots for requests, since it begins with three; has audits and projects
be finite in number, as rows of a table are, and audits and items of their checklists be told apart from 0,
which stands for none; and has the load that opens the compliance workspace (slot 1) among those that are
awaited.

| Theorem | Says | Argument |
|---|---|---|
| `Ingestion_proofs!TypeCorrect` | `SafeSpec => []TypeOK` | inductive with `Bound`: whoever is at work has a file, and every loop a call |
| `...!DeclaredContent` | `SafeSpec => []DeclaredIntegrity` | `IntegrityInv`: the test happens once, on an early read; what carries its outcome to the later writes is that every call past it, and every loop with a snapshot, holds the declared content, and that nothing holds a file before its row exists |
| `...!SingleDrainer` | `SafeSpec => []OneDrainer` if `"read"` and `"mark"` do not fail | `LoopInv`: flag, loop and draining call determine each other; `Alive`: no loop has died |
| `...!RunningSettled` | `SafeSpec => []RunningHasOwner`, if moreover `MaxCrashes = 0` | `RunInv` on top of `LoopInv` |
| `...!QueueInOrder` | `SafeSpec => Promise!SafeSpec` | refinement: each step is a `Submit`, `Serve`, `Restart` or stutter of `WorkQueue` |
| `...!SettledFiles` | `SafeSpec => []SettledFileAgrees` | `ObjectInv`: who opened an object last has filled it, is at it, or broke off, and a stored row has an object; `IntegrityInv` and `AnswerInv` for a file registered with a checksum, however calls on it overlap; for the others, where clients take turns, `SerialInv`: at most one open call on a file (`OneSender`), every call, row and loop agrees with what is stored as far as it has come (`CallAgrees`, `RowAgrees`, `LoopAgrees`), and a job has a row (`JobKnown`) |
| `...!StoredObjectStays` | `SafeSpec => OriginalImmutable` | the same invariants: a call about to write its body finds no checksum in the row, or that of its body, and then the object's bytes are of that body already |
| `...!AnswersAreTrue` | `SafeSpec => []CompletedAnswerIsTrue` | `AnswerInv` on top of `IntegrityInv` for a file registered with a checksum, `SerialInv` for the others |
| `RuleEngine_proofs!TypeCorrect` | `SafeSpec => []TypeOK` | inductive with a bound on who holds a conflict |
| `...!CompletedHasModel` | `SafeSpec => []EvaluationMatchesModel` | `PcStatus`: a run about to write has an evaluation that still says RUNNING, so it writes its only model |
| `...!DisabledForGood` | `SafeSpec => []DisabledStaysOut` | `BarredInv` on top of `PcStatus`: overrides are read after the evaluation exists and are never deleted, and an evaluation with a model is not created again |
| `...!ClashesKnown` | `SafeSpec => []ClashesReported` | `ClashInv`: two hits that clash are a pair (`ClashPairs`), conflicts are written with their model in one transaction, and a conflict's row never goes |
| `...!SerialOverridesTraceable` | `SafeSpec => []OverrideTraceable` if `SerialResolvers` | `TraceInv`: what a resolver holds is, in turns, still unresolved, and a conflict that has an override is not written by its evaluation again |
| `...!SerialLatestWins` | `SafeSpec => []LatestRunWins` if `SerialRuns` | `SerialIInv`: in turns the run in progress is the one that started last |
| `...!SerialVersions` | `SafeSpec => []VersionsCount` if `SerialRuns` | `SerialIInv`: in turns the version a run has read is that of the last model |
| `NodeWorkflow_proofs!TypeCorrect` | `Spec => []TypeOK` | inductive by itself |
| `...!HistoryInOrder` | `Spec => []HistoryNumbered` | `NumberInv`: a generation in its transaction holds a number taken already or the next one, so the unique constraint leaves it the next one only |
| `...!GenerationAllOrNothing` | `Spec => []DoneHasRevision` | every step leaves the history, begins it, or appends the revision of the generation it ends (`Extends`) |
| `...!TurnsHistoryComplete` | `Spec => []TurnsBackUp` | `TurnInv`: in turns, a generation under way is alone and what it saw is still there |
| `...!TurnsModelsForward` | `Spec => []TurnsBasis` | `TurnInv`: it has read a model no older than any revision's |
| `...!TurnsFilledStays` | `Spec => TurnsKeepFilled` | `TurnInv`: its result is a payload of what the node still holds; of a field that is not shadowed, `Existing` is its own value |
| `ProjectServices_proofs!SignOffTypeCorrect` | `Spec => []TypeOK` | inductive by itself |
| `...!ThreeSigners` | `Spec => []CompleteByThree` | `SheetInv`: whatever is stored, or about to be, passed the tests as a whole (`Tested`) |
| `...!NoStepEarly` | `Spec => []StepsInOrder` | the same |
| `...!OthersStay` | `Spec => []TurnsKeepOthers` | `SheetInv`: in turns one sheet at most is about to be written, and it is the stored one but for one entry (`OneEntry`) |
| `...!SeedTypeCorrect` | `SSpec => []SeedTypes` | part of `SeedInv`, below |
| `...!SeedRunsRepair` | `SSpec => []SeedingRepairs` | `SeedInv`: unless a client came in between, what each step the run is past has left is there still (`Kept`), or the current step is the one that is about to write it anew (`Replaces`), and of the current step as much as it has done (`StepBegun`) |
| `...!ServicesAreParts` | `ServicesSpec => Spec /\ FactsSpec /\ DocSpec /\ SSpec` | a step of one service is a step of its part and leaves the variables of the others alone; `turns`, which two of them have, never changes |
| `...!ServicesKeep` | the ten invariants of `project_services`, of `ServicesSpec` | `ServicesAreParts` and the theorem of each part |
| `ProjectFacts_proofs!TypeCorrect` | `FactsSpec => []FactsTypeOK` | inductive by itself |
| `...!SavingAgain` | `FactsSpec => []SavingRepairs` | `AloneInv`: of a call that is alone and past its update, each fact is in its row or its upsert is on the way, and no other call's is |
| `...!TurnsKnown` | `FactsSpec => []TurnsKnowWhatWasStated` | `TurnInv`, on top of `AloneInv`: in turns, whatever is recorded, read or on its way is something that was stated; a column in `overlaid` keeps all of it |
| `...!RulesDecide` | `FactsSpec => []KnownFactsDecide` | of every test, that where it is sure JavaScript's comparison gives the same answer; of every condition, by minimal counterexample: a condition whose verdict is none of its truths although each of its parts has one of its own is impossible, kind by kind |
| `Pages_proofs!TypeCorrect` | `MSpec => []MTypeOK` | inductive with `Worked` |
| `...!WholeOrFirstPart` | `MSpec => []WholeOrPart` | `WorkInv`: the tasks of an event are a first part of the answer's, the next suggestion is the one after them, and the report precedes them |
| `...!InboxTyped` | `Spec => []TypeOK` | `InboxTypes`: inductive with the tasks of each answer |
| `...!InboxShows` | `Spec => []InboxShowsFilter` | `InboxInv`: an operation that is marked alone is the only one under way (`AloneThen`), what it has been answered is what the server has of the filter but for what was touched since (`AnswerTrue`), and a clean list agrees as far or will be loaded (`ListTrue`) |
| `...!InboxAmongPages` | `PagesSpec => []WholeOrPart /\ []InboxShowsFilter` | a step of the pages is one of the inbox or leaves it and the events alone (`PagesKeepInbox`) |
| `...!TabsStaySound` | `PagesSpec => []TabsSound` | `TabsInv`: the tabs a deletion remembers have no repeats either; what `filter` leaves of such tabs has none, and lacks one document only (`WithoutTabs`) |
| `...!SelectionStaysSound` | `PagesSpec => []SelectionSound` | `AudInv`: whatever list comes, the selection is made of it |
| `...!WorkspaceStaysTrue` | `PagesSpec => []WorkspaceTrue` | `CompInv`: what is shown has come with its project (`SightTrue`), a load that is alone has read what the server has (`LoadsTrue`, `AloneTrue`), and each busy flag has a request that lowers it (`FlagsHeld`) |
| `...!QuietlySaved` | `PagesSpec => []QuietSaves` | `ViewInv`: in the calm, all that is being written and all that a load has read is the form as it is with the rest as loaded, and it is on the server or the one request there is brings it (`CalmWrites`) |
| `...!PageStaysTrue` | `PagesSpec => []PageAgrees` | `PageInv`: undisturbed, the page is in one of three phases: shown, or its project on the way and every answer current (`Loading`); one row ahead of the server or the nodes behind it (`RowChanging`); one other change under way, after which the project is loaded (`Changing`). The report likewise (`Reporting`) |
| `Caches_proofs!TypeCorrect` | `Spec => []TypeOK` | inductive with the bounds of the invariants below (`CacheInv`) |
| `...!LastIndexingRepairs` | `Spec => []IndexingRepairs` | `IndexInv`: an undisturbed indexing has found all there is of the file, and while it inserts, what it has inserted (`RowsOf`, without the chunks it passed over) is all there is |
| `...!ListsNotOld` | `Spec => []ListsRecent` | `ListInv`: a version about to be cached was current when the call began, and one that is cached no longer ago than its expiry allows (`Kept`, `Listed`) |
| `...!AnswersNotOld` | `Spec => []AnswersRecent` if all filters are equal | `AnswerInv`: a search finds nothing that was gone when its call began, and by vector all that was there if nothing was cut (`Searching`); whatever the best word scores, a chunk that is close passes, and the best of those that pass lack none unless they fill the answer; an entry says when that was (`Fresh`) |
| `ProjectDocs_proofs!RowsHaveTheirFiles` | `DocSpec => []RowsHaveFiles` | `DocInv`: a row is written after its file, files are never deleted, and a file that is not whole belongs to a call at `"fill"` or to one that failed |
| `...!TreesComplete` | `DocSpec => []AnswersAreComplete` | `DocInv`: a file that was asked for is still to come or has its row, under the path of the metadata the call has read |
| `...!Regenerated` | `DocSpec => []RegenerationRepairs` | `RepairInv`, on top of `DocInv`: as far as a regeneration that is alone has come, its file and its row are as it makes them (`Made`, `RowMade`) |

The hypotheses are not for convenience. Without the first of `SingleDrainer`, `ingestion_wedge` is the
counterexample, and a killed process leaves jobs RUNNING; without equal filters, `rag_filters`; two resolvers at
once leave an override that no conflict names; two runs at once read one version; two senders of one file that was
registered without a checksum may leave the object of one and the row of the other, or, on disk, bytes of both. For
this last reason the properties themselves say which files they are about (`Told`).

The seed is hundreds of statements, and the proof of `SeedRunsRepair` never looks at where one stands in its
script. It says of a script which *kinds* of steps it has and no others (`SeedScript`, `InitScript`), and of each
kind what it is made of (`UpsertShape`, `RuleShape`, ...) and that it is sound: it deletes nothing it has written
before, and its deletions are of sources and of rows of audits alone (`Sound`). The heart of it is
`StepsCompatible`: where one step deletes what another step of the same run writes, it writes the same again, so
nothing a run is past is lost at its end. That needs the codes of rule sets and audits to be different, which
`Codes` reads off the declarations. `NodesInv` finds a node without its current revision only where a run broke
off, or is just now at work; `RowsInv` keeps what an interrupted run must not leave: a pointer to a revision that
is missing, a set of `seed-init.ts` without its rules, sources of a set that is not there. Both hold without the
hypothesis about clients, and let a set be skipped that an earlier run created.

Three of the proofs are about recursive functions: the verdict on a condition, what is left of the tabs without
one, and the scripts, which `FlattenSeq` puts together. They need no rule of induction: they take the least
argument for which the claim fails, which exists since numbers, and by assumption conditions, are well founded
(`FlattenIs`, `Flattened`).

The theorems are about the specification of the component, or of `Pages` and `Caches` where it is one of
several. `ServicesAreParts` carries those of the four services over to `ProjectServices`.

Only model-checked: the liveness properties (`ServesQueue`'s fairness part, `CallsEnd`, `JobsSettle`,
`EvaluationsSettle`, `EventsSettle`, `ListConverges`), which are out of the prover's reach. Every invariant
that a passing run checks is proved, under the hypotheses the table names.

## 6. What the violated runs say

- `ingestion_wedge`: one failed query in `handleJob` outside its `try` leaves the processing flag
  up, and every file queued later waits until the process is restarted.
- `node_stale`: what is saved, or generated, while a generation is under way is overwritten and is
  in no revision: `previousData` is the copy made before the retrieval.
- `rag_filters`: an answer is cached after the legal filter, under a key that does not name the classes the
  caller allowed; another caller is answered with it.
- `document_autosave`: opening a document sends two overlapping PATCHes, one with the form as it was before it
  was loaded, one with the stored form. If the first arrives last, the stored form is lost, although the page
  says it was saved.

`PROJECT.json` ("findings") quotes the lines that say otherwise.

What else was met while modelling, where no line of the repository says otherwise and no run is about it:

- Rules that agree are reported as a conflict if their group has two values; two administrators who
  resolve one conflict at once both write an override.
- A job can end COMPLETED with its file flagged, after a wrong upload arrived while a right one was queued.
- `processEvent` fetches its chat model outside its `try`: an event stays PARSED if that throws. The answer's
  NEEDS_REVIEW, which `docs/termoteam_blueprint/agent_handbook/maintenance-ingestion.md:20` speaks of, is ignored.
- A null neither withdraws a fact nor clears a column; reseeding resets the project and leaves the rows of its
  facts.
- A column that a client names under `facts` too is recorded there and in its row, but not in the column: the next
  update that says nothing of it takes both back to the column's value.
- The reset of a sign-off writes a plain null to JSON columns, which the Prisma client refuses: it always throws.
- With the local driver a retry of an upload that breaks off leaves a truncated object under a row that says
  STORED, though the one before it was complete.
- Where two sections of a template have a field with one id, a generation overwrites the value of the later one
  with that of the earlier.
- A task that was changed, or created, although the answer was lost is not reloaded: the inbox goes on showing it as
  it was.
- Two of the statuses the project page offers, IN_PROGRESS and READY, are refused by the server each time.
- With `?docId` in the address the tab of the document cannot be left.
- A search that fails is cached as one that found nothing. With the
  default weights and `minScore`, a segment that only the words have found never passes. The limit of a search is
  taken before the legal filter, so that an answer may be short of segments the caller is allowed; and as the
  words' score counts by the best row found, a segment may pass or not depending on what else is there.
- An indexing that finds no text leaves the segments of the text before; a chunk that gets no embedding is passed
  over, and the indexing ends well.
- A node at whose creation a seed broke off stays without its revision. The seeded rules use a kind of condition
  (`expression`) that the engine does not know, and which therefore always holds.
- Projects without metadata share a root folder named after what is missing; uploads of one name in one millisecond
  overwrite each other; after a change of the metadata the rows of files generated before keep the old folder.

## 7. What is not modelled, and why

- *Data*: the aggregation of the requirements payload, its warnings and adjusted outcomes; where a
  search's scores come from; prompts, templates, texts, folders; assignment and due dates of tasks. No
  property of the control depends on them.
- *Single statements*: node edges (one upsert or delete each, with no test for cycles), tenants,
  templates, users, the public API, the server's side of audits. The database's guarantees are all they have.
- *Access*: API keys, guards and authentication are outside the scope of these models.
- *Pages* that load once and show what they were given (`app/projects/page.tsx`, settings, home, templates).
- *The start of the server*: two first requests of the serverless handler may each create an application; they
  share nothing but the database, which the models with several processes cover.
- *The clients of external services* (`common/ai`), streams, keys and downloads of the storage: I/O.
- *Two seeds at once*, which nothing starts; *the Refresh button* of the compliance page, whose click event
  becomes a project id that no project has.
- Generated and vendored code, migrations, infrastructure.

What would come next: `RuleEngine` composed with `NodeWorkflow`, `Write` in the place of `NewModel`, for which
model a document is built from while runs overlap; and two seeds at once.
