------------------------------- MODULE Audits -------------------------------
(***************************************************************************)
(* The page of the audits (audits/page.tsx).  It loads them once, adds the *)
(* ones that are created on it, and keeps a selection, an audit and an     *)
(* item of its checklist, which an effect puts right when the list has     *)
(* changed.  An audit can be created while the first load is under way.    *)
(***************************************************************************)
EXTENDS Naturals, FiniteSets, Sequences, SequencesExt

CONSTANTS
    AuditIds,       \* audits; the higher starts later
    Checklist,      \* per audit, the items of its checklist
    Own             \* the audits that are created on this page, which have no checklist

AuditsAssumption ==
    /\ Own \subseteq AuditIds /\ IsFiniteSet(AuditIds) /\ AuditIds \subseteq Nat \ {0}
    /\ Checklist \in [AuditIds -> Seq(Nat \ {0})]

VARIABLES
    stored,         \* the audits on the server
    audits,         \* the list
    selection,      \* the audit and the item, 0: none
    loading,
    load,           \* the request of loadAudits
    creation        \* the request of handleCreateAudit

auditVars == <<stored, audits, selection, loading, load, creation>>

NoSelection == [audit |-> 0, item |-> 0]
FirstOf(seq) == IF seq = <<>> THEN 0 ELSE Head(seq)

AInit ==
    /\ stored \in SUBSET (AuditIds \ Own)
    /\ audits = <<>> /\ selection = NoSelection
    /\ loading = TRUE /\ load = [pc |-> "sent", list |-> <<>>]
    /\ creation = [pc |-> "idle", audit |-> 0]

----------------------------------------------------------------------------
(* Broken variants of operators below; they are no part of the specification *)

\* Broken variant of Select: a selected audit that is no longer in the list stays selected.
SelectStaying(list, was) ==
    IF list = <<>> THEN NoSelection
    ELSE LET audit == IF was.audit # 0 THEN was.audit ELSE Head(list)
         IN  [audit |-> audit, item |-> FirstOf(Checklist[audit])]

----------------------------------------------------------------------------

\* The effect on the list.
Select(list, was) ==
    IF list = <<>> THEN NoSelection
    ELSE LET audit == IF was.audit \in ToSet(list) THEN was.audit ELSE Head(list)
         IN  [audit |-> audit,
              item  |-> IF was.item \in ToSet(Checklist[audit]) THEN was.item
                        ELSE FirstOf(Checklist[audit])]

\* The planner's rows, in the list or the calendar, and the checklist of the details: neither is
\* shown before the list is loaded.
AuditPlanner == IF loading THEN {} ELSE ToSet(audits)
AuditDetails == IF loading \/ selection.audit = 0 THEN {} ELSE ToSet(Checklist[selection.audit])

\* The audits the form can create: its button is disabled while one is being created, the button
\* that opens the form never is.
CreateForm == IF creation.pc = "idle" THEN Own \ stored ELSE {}

\* AuditsService.listAudits: the latest first.
ListAudits ==
    /\ load.pc = "sent"
    /\ \E list \in SetToSeqs(stored) :
          /\ \A m, n \in DOMAIN list : m < n => list[m] > list[n]
          /\ load' = [pc |-> "answered", list |-> list]
    /\ UNCHANGED <<stored, audits, selection, loading, creation>>

\* The list that was loaded takes the place of what there is.
Loaded ==
    /\ load.pc = "answered"
    /\ audits' = load.list
    /\ selection' = Select(load.list, selection)
    /\ loading' = FALSE /\ load' = [pc |-> "idle", list |-> <<>>]
    /\ UNCHANGED <<stored, creation>>

LoadFails ==
    /\ load.pc # "idle"
    /\ loading' = FALSE /\ load' = [pc |-> "idle", list |-> <<>>]
    /\ UNCHANGED <<stored, audits, selection, creation>>

HandleSelectAudit(a) ==
    /\ a \in AuditPlanner
    /\ selection' = [audit |-> a, item |-> FirstOf(Checklist[a])]
    /\ UNCHANGED <<stored, audits, loading, load, creation>>

HandleSelectChecklistItem(item) ==
    /\ item \in AuditDetails
    /\ selection' = [selection EXCEPT !.item = item]
    /\ UNCHANGED <<stored, audits, loading, load, creation>>

HandleCreateAudit(a) ==
    /\ a \in CreateForm
    /\ creation' = [pc |-> "sent", audit |-> a]
    /\ UNCHANGED <<stored, audits, selection, loading, load>>

\* AuditsService.createAudit, for this page or for another client
CreateAudit(a) ==
    /\ a \notin stored
    /\ \/ creation = [pc |-> "sent", audit |-> a] /\ creation' = [creation EXCEPT !.pc = "answered"]
       \/ a \notin Own /\ UNCHANGED creation
    /\ stored' = stored \cup {a}
    /\ UNCHANGED <<audits, selection, loading, load>>

Created ==
    /\ creation.pc = "answered"
    /\ LET list == <<creation.audit>> \o audits
       IN  audits' = list /\ selection' = Select(list, [audit |-> creation.audit, item |-> 0])
    /\ creation' = [pc |-> "idle", audit |-> 0]
    /\ UNCHANGED <<stored, loading, load>>

CreationFails ==
    /\ creation.pc # "idle"
    /\ creation' = [pc |-> "idle", audit |-> 0]
    /\ UNCHANGED <<stored, audits, selection, loading, load>>

----------------------------------------------------------------------------

ANext ==
    \/ ListAudits \/ Loaded \/ LoadFails \/ Created \/ CreationFails
    \/ \E a \in AuditIds : HandleSelectAudit(a) \/ HandleCreateAudit(a) \/ CreateAudit(a)
    \/ \E a \in AuditIds : \E item \in ToSet(Checklist[a]) : HandleSelectChecklistItem(item)

ASpec == AInit /\ [][ANext]_auditVars

----------------------------------------------------------------------------

\* The audit that is selected is in the list, and the item is of that audit's checklist, in
\* whatever order the answers of the load and of the creations change the list; nothing is
\* selected only where there is nothing.
SelectionSound ==
    /\ selection.audit = 0 <=> audits = <<>>
    /\ selection.audit # 0 =>
         /\ selection.audit \in ToSet(audits)
         /\ selection.item \in ToSet(Checklist[selection.audit])
              \/ (selection.item = 0 /\ Checklist[selection.audit] = <<>>)
=============================================================================
