---------------------------- MODULE ProjectDocs ----------------------------
(***************************************************************************)
(* The documentation folder of a project (project-docs.service.ts): files  *)
(* that are generated from templates or by the AI model, attachments that  *)
(* are uploaded, and the tree that shows both.                             *)
(*                                                                         *)
(* Files lie on disk under a root folder and a path, both made of the      *)
(* project's metadata as the call has read them; a row in the database     *)
(* says where.  Each await is a step.  A file is written in two: it is     *)
(* truncated, and it is filled.  Folders are made where they are needed    *)
(* and are left out.                                                       *)
(***************************************************************************)
EXTENDS Naturals, Sequences

CONSTANTS
    Projects,
    Metas,          \* contents of a project's metadata
    Ready,          \* those of them with all that generation requires
    RootOf,         \* per content, the name of the root folder
    PathOf,         \* per file of the template and content, its path
    Copied, Asked,  \* the template's TEMPLATE_ONLY and AI files, in order
    Main,           \* internkontroll_main
    Names,          \* names of attachments
    Stamps,         \* the milliseconds Date.now returns
    Requests,       \* the calls of the service
    MaxChanges,     \* how often metadata change, at most
    DocFaults,      \* a subset of {"fail"}
    None

InOrder(s) == {s[n] : n \in 1..Len(s)}
Files == InOrder(Copied) \cup InOrder(Asked)
Roots == {RootOf[m] : m \in Metas}
Paths == UNION {{PathOf[f][m] : m \in Metas} : f \in Files}

\* What the constants are taken to be.
ProjectDocsAssumption ==
    /\ Ready \subseteq Metas /\ Main \in InOrder(Asked)
    /\ \A f, g \in Files, m \in Metas : PathOf[f][m] = PathOf[g][m] => f = g
    /\ Copied \in Seq(Files) /\ Asked \in Seq(Files)
    /\ None \notin Requests /\ None \notin Roots /\ None \notin Stamps
    /\ MaxChanges \in Nat

VARIABLES
    meta,       \* the projects' metadata
    changes,    \* how often they have changed
    disk,       \* what lies at each place
    rows,       \* documentation_generated_files: per project and path, the root folder
    attached,   \* documentation_attachments
    request     \* the calls of the service

docVars == <<meta, changes, disk, rows, attached, request>>

Places == (Roots \X Paths) \cup (Roots \X Stamps \X Names)

\* by is the call that wrote the file, of and from what it made it of.
NoFile == [by |-> None, whole |-> FALSE, of |-> None, from |-> {}]

DocOpen == {"find", "gather", "open", "fill", "upsert", "insert", "hydrate", "inject"}

\* meta is the project's metadata as the call has read them, todo the files that are still to
\* be generated, at and name those of an upload, from the attachments the AI model is told
\* of, shown and listed the tree that is answered.  wanted, known and alone are history: the
\* files that were asked for, the attachments there were when the call began, and whether no
\* other call has generated anything and the metadata have not changed since then.
NoRequest == [pc |-> "unused", project |-> None, meta |-> None, todo |-> <<>>, forced |-> FALSE,
              at |-> None, name |-> None, from |-> {}, shown |-> {}, listed |-> {},
              wanted |-> {}, known |-> {}, alone |-> FALSE]

DocInit ==
    /\ meta \in [Projects -> Metas]
    /\ changes = 0
    /\ disk = [place \in Places |-> NoFile]
    /\ rows = [p \in Projects |-> [path \in Paths |-> None]]
    /\ attached = {}
    /\ request = [c \in Requests |-> NoRequest]

AttachedTo(p) == {a.upload : a \in {b \in attached : b.project = p}}
Generating(c) == request[c].todo # <<>>

\* Where the call writes.
Place(c) ==
    IF Generating(c)
      THEN <<RootOf[request[c].meta], PathOf[Head(request[c].todo)][request[c].meta]>>
      ELSE <<RootOf[request[c].meta], request[c].at, request[c].name>>

\* The next file's turn, or the tree's.
Onward(c) == request' = [request EXCEPT ![c].todo = Tail(@), ![c].from = {},
                        ![c].pc = IF Len(request[c].todo) = 1 THEN "hydrate" ELSE "find"]

----------------------------------------------------------------------------
(* Broken variants of actions below; they are no part of the specification *)

\* Broken variant of Find: a file is taken for written when its text has been made.
FindAndForget(c) ==
    /\ request[c].pc = "find"
    /\ IF ~request[c].forced /\ rows[request[c].project][Place(c)[2]] # None
         THEN Onward(c)
         ELSE request' = [request EXCEPT ![c].pc = "upsert"]
    /\ UNCHANGED <<meta, changes, disk, rows, attached>>

\* Broken variant of Hydrate: the project is read again for the paths of the tree.
HydrateAnew(c) ==
    /\ request[c].pc = "hydrate"
    /\ request' = [request EXCEPT ![c].pc = "inject", ![c].shown =
         {f \in Files : rows[request[c].project][PathOf[f][meta[request[c].project]]] # None}]
    /\ UNCHANGED <<meta, changes, disk, rows, attached>>

\* Broken variant of Find: a file that has a row is left as it is, come what may.
FindUnforced(c) ==
    /\ request[c].pc = "find"
    /\ IF rows[request[c].project][Place(c)[2]] # None
         THEN Onward(c)
         ELSE request' = [request EXCEPT ![c].pc =
                         IF Head(request[c].todo) \in InOrder(Asked) THEN "gather" ELSE "open"]
    /\ UNCHANGED <<meta, changes, disk, rows, attached>>

----------------------------------------------------------------------------
(* Beside the service: the projects service *)

ChangeMeta(p, m) ==
    /\ changes < MaxChanges /\ m # meta[p]
    /\ meta' = [meta EXCEPT ![p] = m]
    /\ changes' = changes + 1
    /\ request' = [c \in Requests |-> [request[c] EXCEPT !.alone = @ /\ request[c].project # p]]
    /\ UNCHANGED <<disk, rows, attached>>

----------------------------------------------------------------------------
(* How the calls begin: each reads the project first *)

\* uploadAttachment needs no metadata: what is missing makes a root folder's name all the same.
UploadAttachment(c, p, at, name) ==
    /\ request[c].pc = "unused"
    /\ request' = [request EXCEPT ![c] =
         [NoRequest EXCEPT !.pc = "open", !.project = p, !.meta = meta[p], !.at = at, !.name = name]]
    /\ UNCHANGED <<meta, changes, disk, rows, attached>>

\* buildFolderTree, collectFiles and the flags of the body: folders alone, which are not
\* modelled, leave no file to generate.
GenerateStructure(c, p, checklists, internkontroll) ==
    /\ request[c].pc = "unused"
    /\ LET todo == (IF checklists THEN Copied ELSE <<>>) \o (IF internkontroll THEN Asked ELSE <<>>)
       IN  /\ todo # <<>> => meta[p] \in Ready
           /\ request' = [d \in Requests |->
                IF d = c THEN [NoRequest EXCEPT !.pc = IF todo = <<>> THEN "hydrate" ELSE "find",
                                 !.project = p, !.meta = meta[p], !.todo = todo,
                                 !.wanted = InOrder(todo), !.known = AttachedTo(p)]
                         ELSE [request[d] EXCEPT !.alone = @ /\ todo = <<>>]]
    /\ UNCHANGED <<meta, changes, disk, rows, attached>>

RegenerateInternkontroll(c, p) ==
    /\ request[c].pc = "unused"
    /\ meta[p] \in Ready
    /\ request' = [d \in Requests |->
         IF d = c THEN [NoRequest EXCEPT !.pc = "find", !.project = p, !.meta = meta[p],
                          !.todo = <<Main>>, !.forced = TRUE, !.wanted = {Main},
                          !.known = AttachedTo(p), !.alone = \A e \in Requests : ~Generating(e)]
                  ELSE [request[d] EXCEPT !.alone = FALSE]]
    /\ UNCHANGED <<meta, changes, disk, rows, attached>>

\* getFolderTree
GetFolderTree(c, p) == GenerateStructure(c, p, FALSE, FALSE)

\* ensureProjectMeta throws.
Refuse(c, p) ==
    /\ request[c].pc = "unused" /\ meta[p] \notin Ready
    /\ request' = [request EXCEPT ![c] = [NoRequest EXCEPT !.pc = "refused"]]
    /\ UNCHANGED <<meta, changes, disk, rows, attached>>

----------------------------------------------------------------------------
(* createTemplateFile, createAiDocument, writeGeneratedFile *)

\* A file that has a row is left as it is, unless it is to be made anew.
Find(c) ==
    /\ request[c].pc = "find"
    /\ IF ~request[c].forced /\ rows[request[c].project][Place(c)[2]] # None
         THEN Onward(c)
         ELSE request' = [request EXCEPT ![c].pc =
                         IF Head(request[c].todo) \in InOrder(Asked) THEN "gather" ELSE "open"]
    /\ UNCHANGED <<meta, changes, disk, rows, attached>>

\* The attachments go into the prompt.  The model's answer touches nothing.
Gather(c) ==
    /\ request[c].pc = "gather"
    /\ request' = [request EXCEPT ![c].pc = "open", ![c].from = AttachedTo(request[c].project)]
    /\ UNCHANGED <<meta, changes, disk, rows, attached>>

\* fs.writeFile truncates the file first.
Open(c) ==
    /\ request[c].pc = "open"
    /\ disk' = [disk EXCEPT ![Place(c)] = [NoFile EXCEPT !.by = c]]
    /\ request' = [request EXCEPT ![c].pc = "fill"]
    /\ UNCHANGED <<meta, changes, rows, attached>>

Fill(c) ==
    /\ request[c].pc = "fill"
    /\ disk' = [disk EXCEPT ![Place(c)] =
                  [by |-> c, whole |-> TRUE, of |-> request[c].meta, from |-> request[c].from]]
    /\ request' = [request EXCEPT ![c].pc = IF Generating(c) THEN "upsert" ELSE "insert"]
    /\ UNCHANGED <<meta, changes, rows, attached>>

UpsertFile(c) ==
    /\ request[c].pc = "upsert"
    /\ rows' = [rows EXCEPT ![request[c].project][Place(c)[2]] = Place(c)[1]]
    /\ Onward(c)
    /\ UNCHANGED <<meta, changes, disk, attached>>

Insert(c) ==
    /\ request[c].pc = "insert"
    /\ attached' = attached \cup
         {[project |-> request[c].project, upload |-> c, place |-> Place(c)]}
    /\ request' = [request EXCEPT ![c].pc = "ended"]
    /\ UNCHANGED <<meta, changes, disk, rows>>

----------------------------------------------------------------------------
(* The tree *)

Hydrate(c) ==
    /\ request[c].pc = "hydrate"
    /\ request' = [request EXCEPT ![c].pc = "inject", ![c].shown =
         {f \in Files : rows[request[c].project][PathOf[f][request[c].meta]] # None}]
    /\ UNCHANGED <<meta, changes, disk, rows, attached>>

Inject(c) ==
    /\ request[c].pc = "inject"
    /\ request' = [request EXCEPT ![c].pc = "ended", ![c].listed = AttachedTo(request[c].project)]
    /\ UNCHANGED <<meta, changes, disk, rows, attached>>

\* A statement, a write or the AI model throws, or the process dies.
Fail(c) ==
    /\ "fail" \in DocFaults /\ request[c].pc \in DocOpen
    /\ request' = [request EXCEPT ![c].pc = "failed", ![c].todo = <<>>, ![c].alone = FALSE]
    /\ UNCHANGED <<meta, changes, disk, rows, attached>>

----------------------------------------------------------------------------

BeginRequest(c) ==
    \E p \in Projects :
        \/ \E at \in Stamps, name \in Names : UploadAttachment(c, p, at, name)
        \/ \E checklists, internkontroll \in BOOLEAN :
              (checklists \/ internkontroll) /\ GenerateStructure(c, p, checklists, internkontroll)
        \/ RegenerateInternkontroll(c, p) \/ GetFolderTree(c, p) \/ Refuse(c, p)

DocNext ==
    \/ \E c \in Requests :
          \/ BeginRequest(c) \/ Find(c) \/ Gather(c) \/ Open(c) \/ Fill(c) \/ UpsertFile(c)
          \/ Insert(c) \/ Hydrate(c) \/ Inject(c) \/ Fail(c)
    \/ \E p \in Projects, m \in Metas : ChangeMeta(p, m)

DocSpec == DocInit /\ [][DocNext]_docVars

----------------------------------------------------------------------------
(* What the code keeps *)

\* A row never points to nothing.  What it points to is whole, unless the call that writes it
\* has not ended well; and an attachment's is what was uploaded, unless another upload was
\* given the same root folder, millisecond and name.
RowsHaveFiles ==
    /\ \A p \in Projects, path \in Paths : rows[p][path] # None =>
          LET file == disk[<<rows[p][path], path>>]
          IN  /\ file.by # None
              /\ ~file.whole => request[file.by].pc \in {"fill", "failed"}
    /\ \A a \in attached :
          \/ disk[a.place].by = a.upload /\ disk[a.place].whole
          \/ \E c \in Requests \ {a.upload} :
                /\ request[c].at # None
                /\ a.place = <<RootOf[request[c].meta], request[c].at, request[c].name>>

\* A tree that is answered shows as generated every file that was asked for, and lists every
\* attachment there was when the call began, whatever other calls do, or break off, meanwhile
\* and however the metadata change.
AnswersAreComplete ==
    \A c \in Requests : request[c].pc = "ended" /\ request[c].at = None =>
        request[c].wanted \subseteq request[c].shown /\ request[c].known \subseteq request[c].listed

\* A regeneration that has the generating to itself while the metadata stay leaves the file
\* whole, made of these metadata and told of every attachment there was when it began, and
\* the row pointing to it, whatever earlier calls have left.
RegenerationRepairs ==
    \A c \in Requests : request[c].pc = "ended" /\ request[c].forced /\ request[c].alone =>
        LET p == request[c].project
            path == PathOf[Main][meta[p]]
            file == disk[<<RootOf[meta[p]], path>>]
        IN  /\ rows[p][path] = RootOf[meta[p]]
            /\ file.by = c /\ file.whole /\ file.of = meta[p] /\ request[c].known \subseteq file.from
=============================================================================
