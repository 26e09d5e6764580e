---------------------------- MODULE DocumentView ----------------------------
(***************************************************************************)
(* The view of one document (DocumentDetailView.tsx) and its remediation   *)
(* form.  The form is part of the node's data, and every change of it, be  *)
(* it the user's, the assistant's or a load's, makes an effect of the view *)
(* write all of the data, as it was loaded, with the form as it is shown.  *)
(*                                                                         *)
(* Requests reach the server and are answered in any order.  The effects   *)
(* of a render are part of the step that causes it.  The analysis of the   *)
(* document and the working note, which write nothing, are left out.       *)
(***************************************************************************)
EXTENDS Naturals, FiniteSets, FiniteSetsExt

CONSTANTS
    Slots,          \* as many requests are under way at once (numbers)
    StoredForms,    \* the forms the data may have at first
    MaxEdits,       \* how often the form is edited, at most
    MaxGenerated,   \* how often the document is generated meanwhile, at most
    MaxFailed       \* how many requests fail, at most

ViewAssumption == Slots \subseteq Nat /\ StoredForms \subseteq Nat

\* Forms: there is none, it is blank, it is the one that was stored, or an edited one.
NoForm == 0
Blank == 1
Stored == 2
Edited(n) == 2 + n

VARIABLES
    data,       \* on the server: the node's data, its form and the version of the rest
    node,       \* the node as loaded, or NoNode
    form,       \* formData
    loading,    \* until the first load has ended; the view shows nothing else
    savedAt,    \* formSavedAt is set
    request,    \* the requests under way
    edits, generated, failed,
    quiet       \* history: the last change was made while no request was under way, and
                \* no request failed and nobody else wrote since

vvars == <<data, node, form, loading, savedAt, request, edits, generated, failed, quiet>>

NoNode == [form |-> NoForm, rest |-> 0]
Idle   == [kind |-> "none", pc |-> "idle", form |-> NoForm, rest |-> 0]
Sent(kind, f, rest) == [kind |-> kind, pc |-> "sent", form |-> f, rest |-> rest]
Load == Sent("load", NoForm, 0)

Free(req) == {s \in Slots : req[s] = Idle}
Put(req, r) == [req EXCEPT ![Min(Free(req))] = r]
Shown == ~loading /\ node # NoNode

VInit ==
    /\ data \in [form : StoredForms, rest : {1}]
    /\ node = NoNode /\ form = Blank /\ loading = TRUE /\ savedAt = FALSE
    /\ request = Put([s \in Slots |-> Idle], Load)
    /\ edits = 0 /\ generated = 0 /\ failed = 0
    /\ quiet = FALSE

----------------------------------------------------------------------------
(* Broken variants of operators below; they are no part of the specification *)

\* Broken variant of Autosave: the form that was loaded is written.
AutosaveLoaded(req, n, f) == IF n = NoNode THEN req ELSE Put(req, Sent("auto", n.form, n.rest))

----------------------------------------------------------------------------
(* Effects *)

\* The effect on the form and the node's id.
Autosave(req, n, f) == IF n = NoNode THEN req ELSE Put(req, Sent("auto", f, n.rest))

\* setNode.  When the id is new the form is written as it is; then, if the data has a form,
\* the form becomes that one and is written too.
SetNode(req, n) ==
    LET first == IF node = NoNode THEN Autosave(req, n, form) ELSE req
    IN  /\ node' = n
        /\ form' = IF n.form # NoForm THEN n.form ELSE form
        /\ request' = IF n.form # NoForm THEN Autosave(first, n, n.form) ELSE first

----------------------------------------------------------------------------
(* Requests *)

\* NodesService.findOne, or update, which replaces the data.
Arrive(s) ==
    /\ request[s].pc = "sent"
    /\ LET r == request[s]
       IN  IF r.kind = "load"
             THEN /\ request' = [request EXCEPT ![s] =
                                   [kind |-> "load", pc |-> "answered", form |-> data.form, rest |-> data.rest]]
                  /\ UNCHANGED data
             ELSE /\ data' = [form |-> r.form, rest |-> r.rest]
                  /\ request' = [request EXCEPT ![s].pc = "answered"]
    /\ UNCHANGED <<node, form, loading, savedAt, edits, generated, failed, quiet>>

\* loadNode goes on with the content of the node's file.
Loaded(s) ==
    /\ request[s].kind = "load" /\ request[s].pc = "answered"
    /\ Cardinality(Free(request)) >= 2
    /\ SetNode([request EXCEPT ![s] = [Idle EXCEPT !.kind = "load", !.pc = "content"]],
               [form |-> request[s].form, rest |-> request[s].rest])
    /\ UNCHANGED <<data, loading, savedAt, edits, generated, failed, quiet>>

\* A content that cannot be fetched makes no difference.
LoadEnds(s) ==
    /\ request[s].pc = "content"
    /\ request' = [request EXCEPT ![s] = Idle]
    /\ loading' = FALSE
    /\ UNCHANGED <<data, node, form, savedAt, edits, generated, failed, quiet>>

Autosaved(s) ==
    /\ request[s].kind = "auto" /\ request[s].pc = "answered"
    /\ savedAt' = TRUE
    /\ request' = [request EXCEPT ![s] = Idle]
    /\ UNCHANGED <<data, node, form, loading, edits, generated, failed, quiet>>

\* "Reload to confirm"
SavedToServer(s) ==
    /\ request[s].kind = "save" /\ request[s].pc = "answered"
    /\ request' = [request EXCEPT ![s] = Load]
    /\ UNCHANGED <<data, node, form, loading, savedAt, edits, generated, failed, quiet>>

\* The request or its answer is lost.
RequestFails(s) ==
    /\ failed < MaxFailed /\ request[s].pc \in {"sent", "answered"}
    /\ request' = [request EXCEPT ![s] = Idle]
    /\ loading' = (loading /\ request[s].kind # "load")
    /\ failed' = failed + 1
    /\ quiet' = FALSE
    /\ UNCHANGED <<data, node, form, savedAt, edits, generated>>

----------------------------------------------------------------------------
(* The user, the assistant and others *)

Quiet == Free(request) = Slots

Edit ==
    /\ edits < MaxEdits /\ Free(request) # {}
    /\ edits' = edits + 1
    /\ form' = Edited(edits')
    /\ request' = Autosave(request, node, form')
    /\ quiet' = (Quiet /\ node # NoNode)
    /\ UNCHANGED <<data, node, loading, savedAt, generated, failed>>

\* A field of the form.
FillField == Shown /\ Edit

\* The assistant's actions do not wait until the node is loaded: a proposal that is accepted,
\* and one field that is set.
FillRemediationForm == Edit
SetRemediationField == Edit

\* The button "Lagre til Server", which is never disabled.
SaveToServer ==
    /\ Shown /\ Free(request) # {}
    /\ request' = Put(request, Sent("save", form, node.rest))
    /\ quiet' = Quiet
    /\ UNCHANGED <<data, node, form, loading, savedAt, edits, generated, failed>>

\* Elsewhere the document is generated: the new data has no form (NodeWorkflow's generation).
Generate ==
    /\ generated < MaxGenerated
    /\ generated' = generated + 1
    /\ data' = [form |-> NoForm, rest |-> data.rest + 1]
    /\ quiet' = FALSE
    /\ UNCHANGED <<node, form, loading, savedAt, request, edits, failed>>

----------------------------------------------------------------------------

VNext ==
    \/ \E s \in Slots :
          Arrive(s) \/ Loaded(s) \/ LoadEnds(s) \/ Autosaved(s) \/ SavedToServer(s) \/ RequestFails(s)
    \/ FillField \/ FillRemediationForm \/ SetRemediationField \/ SaveToServer \/ Generate

VSpec == VInit /\ [][VNext]_vvars

----------------------------------------------------------------------------
(* What the code keeps *)

\* Who changes or saves the form while no other request of the view is under way finds it on
\* the server as it is shown, once all requests are answered, the reload after a save and
\* the write that follows it included; and the rest of the data is what the view loaded.
QuietSaves == quiet /\ Quiet => data = [form |-> form, rest |-> node.rest]

----------------------------------------------------------------------------
(* What the page says and the code does not keep *)

\* DocumentDetailView.tsx:538: "Lagres automatisk", the form is saved by itself.  Without
\* failures or other writers, then, it is on the server when all requests are answered.
AutosaveKeepsForm ==
    Quiet /\ savedAt /\ failed = 0 /\ generated = 0 => data.form = form
=============================================================================
