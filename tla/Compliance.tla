----------------------------- MODULE Compliance -----------------------------
(***************************************************************************)
(* The compliance workspace (ComplianceTab.tsx, ConflictResolver.tsx).  It *)
(* shows one project: its nodes, rule sets, latest requirements and open   *)
(* conflicts, four reads that are answered each at its own time and shown  *)
(* together.  Audits and resolutions end in a load of their own, and the   *)
(* assistant starts audits beside the page: loads of different projects    *)
(* may be under way at once.                                               *)
(***************************************************************************)
EXTENDS Naturals, FiniteSets, Sequences, SequencesExt, FiniteSetsExt

CONSTANTS
    Workspaces,     \* projects
    RuleSetsOf,     \* per project, the rule sets that are offered, a sequence
    Awaited,        \* slots of requests that are under way at once
    MaxChanges      \* how often rules are evaluated and nodes are changed, at most

ComplianceAssumption ==
    IsFiniteSet(Workspaces) /\ RuleSetsOf \in [Workspaces -> Seq(Nat)] /\ 1 \in Awaited

VARIABLES
    offered,        \* the server: the projects, as they are listed, in some order
    evaluated,      \* per project, its latest requirements: how often it was evaluated
    unresolved,     \* the conflicts that are open: <<project, evaluation>>
    edition,        \* per project, what its nodes are
    known,          \* the page: projects
    workspace,      \* what is selected and what is shown of it
    conflict,       \* selectedConflict, whose dialogue is open
    busy,           \* the flags that are up, of "loading", "analyzing" and "submitting"
    sent,           \* the requests
    assistant,      \* history: the assistant chose the rule set since it was last looked up
    settled         \* history: the workspace was read with nothing else under way, and
                    \* nothing has changed since

complianceVars == <<offered, evaluated, unresolved, edition, known, workspace, conflict, busy,
                    sent, assistant, settled>>
server == <<offered, evaluated, unresolved, edition>>

NoWorkspace == 0
NoConflict  == <<NoWorkspace, 0>>
AllRuleSets == UNION {ToSet(RuleSetsOf[p]) : p \in Workspaces}
Cleared == [project |-> NoWorkspace, ruleSet |-> 0, ruleSets |-> <<>>, nodes |-> NoConflict,
            requirements |-> NoConflict, conflicts |-> {}]
\* A request.  todo is what a load has still to read, ends the flag it takes down in the end,
\* alone is history: nothing else was under way, and nothing changed, since it was sent.
Idle == [pc |-> "idle", kind |-> "none", project |-> NoWorkspace, conflict |-> NoConflict,
         todo |-> {}, got |-> Cleared, ends |-> "none", alone |-> FALSE]

Changes     == FoldSet(LAMBDA p, n : n + evaluated[p] + edition[p], 0, Workspaces)
Free(s)     == sent[s] = Idle /\ \A t \in Awaited : t < s => sent[t] # Idle
AnswersTo(s, kind) == sent[s].pc = "answered" /\ sent[s].kind = kind

\* The requests when s has the request r from now on.
Sending(s, r) ==
    [t \in Awaited |-> IF t = s THEN [r EXCEPT !.alone = \A u \in Awaited \ {s} : sent[u] = Idle]
                                ELSE [sent[t] EXCEPT !.alone = FALSE]]
\* ... and when somebody else changes the server.
Disturbed == [t \in Awaited |-> [sent[t] EXCEPT !.alone = FALSE]]

CInit ==
    /\ offered \in {SetToSeq(Workspaces), <<>>}
    /\ evaluated = [p \in Workspaces |-> 0] /\ unresolved = {} /\ edition = [p \in Workspaces |-> 0]
    /\ known = <<>> /\ workspace = Cleared /\ conflict = NoConflict /\ busy = {"loading"}
    /\ sent = [s \in Awaited |-> IF s = 1 THEN [Idle EXCEPT !.pc = "sent", !.kind = "projects"]
                                       ELSE Idle]
    /\ assistant = FALSE /\ settled = FALSE

----------------------------------------------------------------------------
(* The workspace *)

\* loadWorkspace goes on in slot s, in the continuation that takes the flag `ends' down.
LoadWorkspace(s, p, ends) ==
    sent' = Sending(s, [Idle EXCEPT !.pc = "sent", !.kind = "load", !.project = p, !.ends = ends,
                          !.todo = {"nodes", "requirements", "conflicts"},
                          !.got = [Cleared EXCEPT !.project = p, !.ruleSets = RuleSetsOf[p]]])

\* What the server answers.
FetchNodes(p)         == <<p, edition[p]>>
LatestRequirements(p) == <<p, evaluated[p]>>
ListConflicts(p)      == {c \in unresolved : c[1] = p}

\* One of the reads is answered; the rule sets do not change, and are there at once.
Read(s, part) ==
    LET p == sent[s].project IN
    /\ sent[s].kind = "load" /\ part \in sent[s].todo
    /\ sent' = [sent EXCEPT ![s].todo = @ \ {part},
                  ![s].got = [@ EXCEPT ![part] = CASE part = "nodes"        -> FetchNodes(p)
                                                   [] part = "requirements" -> LatestRequirements(p)
                                                   [] part = "conflicts"    -> ListConflicts(p)]]
    /\ UNCHANGED <<server, known, workspace, conflict, busy, assistant, settled>>

\* What fetchWorkspace sets in the end.  A rule set that is offered stays selected.
Show(got) ==
    [got EXCEPT !.ruleSet = IF workspace.ruleSet \in ToSet(got.ruleSets) THEN workspace.ruleSet
                            ELSE IF got.ruleSets = <<>> THEN 0 ELSE Head(got.ruleSets)]

\* Everything is read.  The load takes its own flag down, and that of the audit it ends,
\* whoever else has put them up.
WorkspaceLoaded(s) ==
    /\ sent[s].kind = "load" /\ sent[s].todo = {}
    /\ workspace' = Show(sent[s].got)
    /\ busy' = busy \ {"loading", sent[s].ends}
    /\ assistant' = FALSE /\ settled' = sent[s].alone
    /\ sent' = [sent EXCEPT ![s] = Idle]
    /\ UNCHANGED <<server, known, conflict>>

\* One of the reads fails: nothing is shown of the others.
LoadFails(s) ==
    /\ sent[s].kind = "load" /\ sent[s].todo # {}
    /\ busy' = busy \ {"loading", sent[s].ends}
    /\ sent' = [sent EXCEPT ![s] = Idle]
    /\ UNCHANGED <<server, known, workspace, conflict, assistant, settled>>

----------------------------------------------------------------------------
(* The page is opened *)

FetchProjects(s) ==
    /\ sent[s].pc = "sent" /\ sent[s].kind = "projects"
    /\ sent' = [sent EXCEPT ![s].pc = "answered"]
    /\ UNCHANGED <<server, known, workspace, conflict, busy, assistant, settled>>

\* The first project is loaded.
ProjectsKnown(s) ==
    /\ AnswersTo(s, "projects") /\ offered # <<>>
    /\ known' = offered
    /\ LoadWorkspace(s, Head(offered), "none")
    /\ UNCHANGED <<server, workspace, conflict, busy, assistant, settled>>

ClearWorkspaceState(s) ==
    /\ AnswersTo(s, "projects") /\ offered = <<>>
    /\ workspace' = Cleared /\ busy' = busy \ {"loading"}
    /\ sent' = [sent EXCEPT ![s] = Idle]
    /\ assistant' = FALSE
    /\ UNCHANGED <<server, known, conflict, settled>>

ProjectsFail(s) ==
    /\ sent[s].pc = "sent" /\ sent[s].kind = "projects"
    /\ busy' = busy \ {"loading"} /\ sent' = [sent EXCEPT ![s] = Idle]
    /\ UNCHANGED <<server, known, workspace, conflict, assistant, settled>>

----------------------------------------------------------------------------
(* What is chosen *)

----------------------------------------------------------------------------
(* A broken variant of SelectProject below; it is no part of the specification*)

\* The project is selected before it is loaded.
SelectProjectFirst(s, p) ==
    /\ Free(s) /\ "loading" \notin busy /\ p \in ToSet(known)
    /\ busy' = busy \cup {"loading"}
    /\ workspace' = [workspace EXCEPT !.project = p]
    /\ LoadWorkspace(s, p, "none")
    /\ UNCHANGED <<server, known, conflict, assistant, settled>>

----------------------------------------------------------------------------

\* The project that is chosen is selected only once it is loaded.
SelectProject(s, p) ==
    /\ Free(s) /\ "loading" \notin busy /\ p \in ToSet(known)
    /\ busy' = busy \cup {"loading"}
    /\ LoadWorkspace(s, p, "none")
    /\ UNCHANGED <<server, known, workspace, conflict, assistant, settled>>

SelectRuleSet(r) ==
    /\ workspace.project # NoWorkspace /\ r \in ToSet(workspace.ruleSets)
    /\ workspace' = [workspace EXCEPT !.ruleSet = r]
    /\ assistant' = FALSE
    /\ UNCHANGED <<server, known, conflict, busy, sent, settled>>

OpenConflict(c) ==
    /\ conflict = NoConflict /\ c \in workspace.conflicts
    /\ conflict' = c
    /\ UNCHANGED <<server, known, workspace, busy, sent, assistant, settled>>

CancelConflict ==
    /\ conflict # NoConflict /\ "submitting" \notin busy
    /\ conflict' = NoConflict
    /\ UNCHANGED <<server, known, workspace, busy, sent, assistant, settled>>

----------------------------------------------------------------------------
(* Audits and resolutions *)

Run(s, p) == sent' = Sending(s, [Idle EXCEPT !.pc = "sent", !.kind = "run", !.project = p])

HandleAnalyze(s) ==
    /\ Free(s) /\ "analyzing" \notin busy
    /\ workspace.project # NoWorkspace /\ workspace.ruleSet # 0
    /\ busy' = busy \cup {"analyzing"}
    /\ Run(s, workspace.project)
    /\ UNCHANGED <<server, known, workspace, conflict, assistant, settled>>

\* The assistant names a rule set and perhaps a project, and nothing holds it back.
RunComplianceAudit(s, p, r) ==
    /\ Free(s) /\ p \in ToSet(offered)
    /\ workspace' = [workspace EXCEPT !.ruleSet = r]
    /\ busy' = busy \cup {"analyzing"}
    /\ Run(s, p)
    /\ assistant' = TRUE
    /\ UNCHANGED <<server, known, conflict, settled>>

\* RuleEngineService.runRuleEngine: the requirements and a conflict, in one transaction.
RunRuleEngine(s) ==
    LET p == sent[s].project IN
    /\ sent[s].pc = "sent" /\ sent[s].kind = "run" /\ Changes < MaxChanges
    /\ evaluated' = [evaluated EXCEPT ![p] = @ + 1]
    /\ unresolved' = unresolved \cup {<<p, evaluated[p] + 1>>}
    /\ sent' = [sent EXCEPT ![s].pc = "answered"]
    /\ settled' = FALSE
    /\ UNCHANGED <<offered, edition, known, workspace, conflict, busy, assistant>>

Evaluated(s) ==
    /\ AnswersTo(s, "run")
    /\ busy' = busy \cup {"loading"}
    /\ LoadWorkspace(s, sent[s].project, "analyzing")
    /\ UNCHANGED <<server, known, workspace, conflict, assistant, settled>>

\* The run, or its answer, is lost.
RunFails(s) ==
    /\ sent[s].kind = "run"
    /\ busy' = busy \ {"analyzing"}
    /\ sent' = [sent EXCEPT ![s] = Idle]
    /\ UNCHANGED <<server, known, workspace, conflict, assistant, settled>>

\* What is loaded afterwards is the project that is selected now.
HandleSubmit(s) ==
    /\ Free(s) /\ conflict # NoConflict /\ "submitting" \notin busy
    /\ busy' = busy \cup {"submitting"}
    /\ sent' = Sending(s, [Idle EXCEPT !.pc = "sent", !.kind = "resolve",
                             !.project = workspace.project, !.conflict = conflict])
    /\ UNCHANGED <<server, known, workspace, conflict, assistant, settled>>

\* RuleEngineService.resolveConflict, which leaves alone what is resolved.
ResolveConflict(s) ==
    /\ sent[s].pc = "sent" /\ sent[s].kind = "resolve"
    /\ unresolved' = unresolved \ {sent[s].conflict}
    /\ sent' = [sent EXCEPT ![s].pc = "answered"]
    /\ settled' = (settled /\ sent[s].conflict \notin unresolved)
    /\ UNCHANGED <<offered, evaluated, edition, known, workspace, conflict, busy, assistant>>

OnResolved(s) ==
    /\ AnswersTo(s, "resolve")
    /\ conflict' = NoConflict
    /\ busy' = (busy \ {"submitting"}) \cup {"loading"}
    /\ LoadWorkspace(s, sent[s].project, "none")
    /\ UNCHANGED <<server, known, workspace, assistant, settled>>

ResolveFails(s) ==
    /\ sent[s].kind = "resolve"
    /\ busy' = busy \ {"submitting"}
    /\ sent' = [sent EXCEPT ![s] = Idle]
    /\ UNCHANGED <<server, known, workspace, conflict, assistant, settled>>

\* Another client changes the nodes, evaluates the rules or resolves a conflict.
OthersChange(p) ==
    /\ \/ /\ Changes < MaxChanges
          /\ edition' = [edition EXCEPT ![p] = @ + 1] /\ UNCHANGED <<evaluated, unresolved>>
       \/ /\ Changes < MaxChanges
          /\ evaluated' = [evaluated EXCEPT ![p] = @ + 1]
          /\ unresolved' = unresolved \cup {<<p, evaluated[p] + 1>>} /\ UNCHANGED edition
       \/ \E c \in unresolved : unresolved' = unresolved \ {c} /\ UNCHANGED <<evaluated, edition>>
    /\ sent' = Disturbed /\ settled' = FALSE
    /\ UNCHANGED <<offered, known, workspace, conflict, busy, assistant>>

----------------------------------------------------------------------------

CNext ==
    \/ CancelConflict
    \/ \E r \in AllRuleSets : SelectRuleSet(r)
    \/ \E c \in unresolved \cup workspace.conflicts : OpenConflict(c)
    \/ \E p \in Workspaces : OthersChange(p)
    \/ \E s \in Awaited :
        \/ FetchProjects(s) \/ ProjectsKnown(s) \/ ClearWorkspaceState(s) \/ ProjectsFail(s)
        \/ WorkspaceLoaded(s) \/ LoadFails(s) \/ HandleAnalyze(s) \/ RunRuleEngine(s)
        \/ Evaluated(s) \/ RunFails(s) \/ HandleSubmit(s) \/ ResolveConflict(s)
        \/ OnResolved(s) \/ ResolveFails(s)
        \/ \E part \in sent[s].todo : Read(s, part)
        \/ \E p \in Workspaces : SelectProject(s, p) \/ \E r \in AllRuleSets : RunComplianceAudit(s, p, r)

CSpec == CInit /\ [][CNext]_complianceVars

----------------------------------------------------------------------------

\* Whatever loads, audits and resolutions of several projects overlap, all that is shown is of
\* the one project that is selected, with a rule set it offers, if any, unless the assistant
\* named another; a load that had the page and the server to itself puts right what such overlaps
\* have left stale; and no button stays disabled when nothing is under way.
WorkspaceTrue ==
    LET p == workspace.project IN
    /\ p # NoWorkspace =>
         /\ workspace.ruleSets = RuleSetsOf[p]
         /\ workspace.nodes[1] = p /\ workspace.requirements[1] = p
         /\ \A c \in workspace.conflicts : c[1] = p
         /\ \/ assistant \/ workspace.ruleSet \in ToSet(workspace.ruleSets)
            \/ workspace.ruleSets = <<>> /\ workspace.ruleSet = 0
         /\ settled => /\ workspace.nodes = FetchNodes(p)
                       /\ workspace.requirements = LatestRequirements(p)
                       /\ workspace.conflicts = ListConflicts(p)
    /\ (\A s \in Awaited : sent[s] = Idle) => busy = {}
=============================================================================
