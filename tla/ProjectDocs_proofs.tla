------------------------- MODULE ProjectDocs_proofs -------------------------
(***************************************************************************)
(* Proofs about ProjectDocs, for any projects, metadata, files, calls and  *)
(* faults.                                                                 *)
(***************************************************************************)
EXTENDS ProjectDocs, SequenceTheorems, TLAPS

DocPc == DocOpen \cup {"unused", "refused", "ended", "failed"}

RequestFields ==
    [pc : DocPc, project : Projects \cup {None}, meta : Metas \cup {None}, todo : Seq(Files),
     forced : BOOLEAN, at : Stamps \cup {None}, name : Names \cup {None}, from : SUBSET Requests,
     shown : SUBSET Files, listed : SUBSET Requests, wanted : SUBSET Files, known : SUBSET Requests,
     alone : BOOLEAN]

FileState == [by : Requests \cup {None}, whole : BOOLEAN, of : Metas \cup {None}, from : SUBSET Requests]
Attachment == [project : Projects, upload : Requests, place : Roots \X Stamps \X Names]

DocTypes ==
    /\ meta \in [Projects -> Metas] /\ changes \in Nat
    /\ disk \in [Places -> FileState]
    /\ rows \in [Projects -> [Paths -> Roots \cup {None}]]
    /\ attached \in SUBSET Attachment
    /\ request \in [Requests -> RequestFields]

LEMMA TodoTypes ==
  ASSUME NEW s \in Seq(Files), s # <<>>
  PROVE  /\ Head(s) \in Files /\ Tail(s) \in Seq(Files)
         /\ \A f \in InOrder(s) : f = Head(s) \/ f \in InOrder(Tail(s))
         /\ Len(s) = 1 <=> Tail(s) = <<>>
  <1>1. Head(s) \in Files /\ Tail(s) \in Seq(Files) /\ Len(s) \in Nat /\ Len(s) # 0
        /\ Len(Tail(s)) = Len(s) - 1
    BY HeadTailProperties, EmptySeq, LenProperties
  <1>2. \A n \in 1..Len(Tail(s)) : Tail(s)[n] = s[n + 1]
    BY <1>1
  <1>3. ASSUME NEW n \in 1..Len(s), n # 1 PROVE s[n] \in InOrder(Tail(s))
    <2>1. n - 1 \in 1..Len(Tail(s)) /\ (n - 1) + 1 = n
      BY <1>1, <1>3
    <2>2. Tail(s)[n - 1] = s[n]
      BY <1>2, <2>1
    <2> QED BY <2>1, <2>2 DEF InOrder
  <1>4. s[1] = Head(s)
    BY <1>1
  <1>5. Len(s) = 1 <=> Tail(s) = <<>>
    BY <1>1, EmptySeq
  <1> QED BY <1>1, <1>3, <1>4, <1>5 DEF InOrder

LEMMA NoRequestType ==
  /\ NoRequest \in RequestFields /\ NoRequest.pc = "unused" /\ NoRequest.todo = <<>> /\ NoRequest.at = None
  /\ NoRequest.wanted = {} /\ NoRequest.known = {}
  /\ NoFile \in FileState /\ NoFile.by = None
  <1>1. <<>> \in Seq(Files)
    OBVIOUS
  <1> QED BY <1>1 DEF NoRequest, RequestFields, DocPc, DocOpen, NoFile, FileState

\* A generated file's place is no attachment's.
LEMMA PlacesApart ==
  \A root, path, other, stamp, name : <<root, path>> # <<other, stamp, name>>
  OBVIOUS

(***************************************************************************)
(* The invariant.                                                          *)
(***************************************************************************)
\* Where an upload writes.
UploadPlace(c) == <<RootOf[request[c].meta], request[c].at, request[c].name>>

CallOk(c) ==
    LET x == request[c] IN
    /\ x.pc # "unused" /\ x.pc # "refused" => x.project \in Projects /\ x.meta \in Metas
    /\ x.pc = "unused" => x.at = None
    /\ x.pc \in {"find", "gather", "upsert"} => Generating(c)
    /\ x.pc \in {"insert", "hydrate", "inject", "ended"} => ~Generating(c)
    /\ Generating(c) => x.at = None
    /\ x.pc \in {"open", "fill", "insert"} /\ ~Generating(c) => x.at \in Stamps /\ x.name \in Names
    /\ x.pc = "upsert" => disk[Place(c)].by # None
    /\ x.pc = "insert" => \/ disk[Place(c)].by = c /\ disk[Place(c)].whole
                          \/ \E d \in Requests \ {c} : request[d].at # None /\ UploadPlace(d) = Place(c)
    /\ x.at = None /\ x.pc \in DocOpen =>
          \A f \in x.wanted : \/ f \in InOrder(x.todo)
                              \/ rows[x.project][PathOf[f][x.meta]] # None
    /\ x.pc \in DocOpen => x.known \subseteq AttachedTo(x.project)
    /\ x.pc \in {"inject", "ended"} /\ x.at = None => x.wanted \subseteq x.shown
    /\ x.pc = "ended" /\ x.at = None => x.known \subseteq x.listed

DiskOk ==
    \A place \in Places : disk[place].by # None /\ ~disk[place].whole =>
        LET d == disk[place].by IN
        /\ request[d].pc \in {"fill", "failed"}
        /\ request[d].pc = "fill" => place = Place(d)

RowOk == \A p \in Projects, path \in Paths : rows[p][path] # None => disk[<<rows[p][path], path>>].by # None

AttachedOk ==
    \A a \in attached :
        /\ request[a.upload].pc = "ended"
        /\ \/ disk[a.place].by = a.upload /\ disk[a.place].whole
           \/ \E d \in Requests \ {a.upload} : request[d].at # None /\ UploadPlace(d) = a.place

DocInv == DocTypes /\ (\A c \in Requests : CallOk(c)) /\ DiskOk /\ RowOk /\ AttachedOk

LEMMA InitDoc == ASSUME ProjectDocsAssumption, DocInit PROVE DocInv
  <1>1. DocTypes
    BY NoRequestType DEF DocInit, DocTypes
  <1>2. \A c \in Requests : CallOk(c)
    BY NoRequestType DEF DocInit, CallOk, DocOpen, Generating
  <1>3. DiskOk /\ RowOk /\ AttachedOk
    BY NoRequestType DEF DocInit, DiskOk, RowOk, AttachedOk
  <1> QED BY <1>1, <1>2, <1>3 DEF DocInv

\* Files have places.
LEMMA PlaceTypes ==
  ASSUME NEW root \in Roots
  PROVE  /\ \A path \in Paths : <<root, path>> \in Places
         /\ \A at \in Stamps, name \in Names : <<root, at, name>> \in Places
         /\ \A m \in Metas : RootOf[m] \in Roots /\ \A f \in Files : PathOf[f][m] \in Paths
  BY DEF Places, Roots, Paths

LEMMA OwnPlace ==
  ASSUME ProjectDocsAssumption, DocInv, NEW c \in Requests
  PROVE  /\ Generating(c) /\ request[c].pc \in DocOpen =>
               /\ Place(c) = <<RootOf[request[c].meta], PathOf[Head(request[c].todo)][request[c].meta]>>
               /\ Place(c) \in Places /\ Place(c)[1] \in Roots /\ Place(c)[2] \in Paths
               /\ Head(request[c].todo) \in Files
         /\ request[c].pc \in {"open", "fill", "insert"} /\ ~Generating(c) =>
               /\ Place(c) = UploadPlace(c) /\ Place(c) \in Places /\ request[c].at # None
               /\ Place(c) \in Roots \X Stamps \X Names
  <1>0. CallOk(c) /\ request[c] \in RequestFields
    BY DEF DocInv, DocTypes
  <1>1. request[c].pc \in DocOpen => request[c].meta \in Metas
    BY <1>0 DEF CallOk, DocOpen
  <1>2. ASSUME Generating(c), request[c].pc \in DocOpen
        PROVE  /\ Place(c) = <<RootOf[request[c].meta], PathOf[Head(request[c].todo)][request[c].meta]>>
               /\ Place(c) \in Places /\ Place(c)[1] \in Roots /\ Place(c)[2] \in Paths
               /\ Head(request[c].todo) \in Files
    <2>1. Head(request[c].todo) \in Files
      BY <1>0, <1>2, TodoTypes DEF RequestFields, Generating
    <2>2. RootOf[request[c].meta] \in Roots /\ PathOf[Head(request[c].todo)][request[c].meta] \in Paths
      BY <1>1, <1>2, <2>1, PlaceTypes DEF Roots
    <2>3. Place(c) = <<RootOf[request[c].meta], PathOf[Head(request[c].todo)][request[c].meta]>>
      BY <1>2 DEF Place
    <2> QED BY <2>1, <2>2, <2>3, PlaceTypes
  <1>3. ASSUME request[c].pc \in {"open", "fill", "insert"}, ~Generating(c)
        PROVE  /\ Place(c) = UploadPlace(c) /\ Place(c) \in Places /\ request[c].at # None
               /\ Place(c) \in Roots \X Stamps \X Names
    <2>1. request[c].at \in Stamps /\ request[c].name \in Names /\ RootOf[request[c].meta] \in Roots
      BY <1>0, <1>1, <1>3 DEF CallOk, DocOpen, Roots
    <2>2. Place(c) = <<RootOf[request[c].meta], request[c].at, request[c].name>>
      BY <1>3 DEF Place
    <2>3. request[c].at # None
      BY <2>1 DEF ProjectDocsAssumption
    <2> QED BY <2>1, <2>2, <2>3 DEF Places, UploadPlace
  <1> QED BY <1>2, <1>3

\* Only whether it is alone may change of another call.
SameBut(d) ==
    /\ request'[d].pc = request[d].pc /\ request'[d].project = request[d].project /\ request'[d].meta = request[d].meta
    /\ request'[d].todo = request[d].todo /\ request'[d].at = request[d].at /\ request'[d].name = request[d].name
    /\ request'[d].shown = request[d].shown /\ request'[d].listed = request[d].listed
    /\ request'[d].wanted = request[d].wanted /\ request'[d].known = request[d].known

\* What every step of a call has in common: it writes where it has its place.
Moves(c) ==
    /\ request[c].pc \notin {"ended", "failed", "refused"}
    /\ \A d \in Requests \ {c} : SameBut(d)
    /\ request[c].at # None => request'[c].at = request[c].at /\ UploadPlace(c)' = UploadPlace(c)
    /\ \A place \in Places :
          \/ disk'[place] = disk[place]
          \/ /\ place = Place(c) /\ disk'[place].by = c /\ request[c].pc \in {"open", "fill"}
    /\ \A p \in Projects, path \in Paths : rows[p][path] # None => rows'[p][path] # None
    /\ attached \subseteq attached'

\* An attachment is overwritten by an upload to the same place alone.
LEMMA UploadsStay ==
  ASSUME ProjectDocsAssumption, DocInv, NEW c \in Requests, Moves(c),
         NEW d \in Requests, d # c, NEW place \in Roots \X Stamps \X Names,
         \/ disk[place].by = d /\ disk[place].whole
         \/ \E e \in Requests \ {d} : request[e].at # None /\ UploadPlace(e) = place
  PROVE  \/ disk'[place].by = d /\ disk'[place].whole
         \/ \E e \in Requests \ {d} : request'[e].at # None /\ UploadPlace(e)' = place
  <1>1. ASSUME NEW e \in Requests \ {d}, request[e].at # None, UploadPlace(e) = place
        PROVE  request'[e].at # None /\ UploadPlace(e)' = place
    BY <1>1 DEF Moves, SameBut, UploadPlace
  <1>2. CASE disk[place].by = d /\ disk[place].whole /\ disk'[place] # disk[place]
    <2>1. place \in Places
      BY DEF Places
    <2>2. place = Place(c) /\ request[c].pc \in {"open", "fill"}
      BY <1>2, <2>1 DEF Moves
    <2>3. ~Generating(c)
      BY <2>2, OwnPlace, PlacesApart DEF DocOpen
    <2>4. request[c].at # None /\ UploadPlace(c) = place
      BY <2>2, <2>3, OwnPlace
    <2> QED BY <1>1, <2>4
  <1> QED BY <1>1, <1>2

LEMMA OthersOk ==
  ASSUME ProjectDocsAssumption, DocInv, DocTypes', NEW c \in Requests, Moves(c), NEW d \in Requests, d # c
  PROVE  CallOk(d)'
  <1>0. CallOk(d) /\ SameBut(d) /\ request[d] \in RequestFields
    BY DEF DocInv, DocTypes, Moves
  <1>1. Place(d)' = Place(d) /\ (Generating(d)' <=> Generating(d))
    BY <1>0 DEF SameBut, Place, Generating
  <1>2. request[d].pc = "upsert" => disk'[Place(d)].by # None
    <2> SUFFICES ASSUME request[d].pc = "upsert" PROVE disk'[Place(d)].by # None
      OBVIOUS
    <2>1. disk[Place(d)].by # None /\ Place(d) \in Places
      BY <1>0, OwnPlace DEF CallOk, DocOpen
    <2>2. c # None
      BY DEF ProjectDocsAssumption
    <2> QED BY <2>1, <2>2 DEF Moves
  <1>3. request[d].pc = "insert" => \/ disk'[Place(d)].by = d /\ disk'[Place(d)].whole
                                    \/ \E e \in Requests \ {d} : request'[e].at # None /\ UploadPlace(e)' = Place(d)
    <2> SUFFICES ASSUME request[d].pc = "insert"
                 PROVE  \/ disk'[Place(d)].by = d /\ disk'[Place(d)].whole
                        \/ \E e \in Requests \ {d} : request'[e].at # None /\ UploadPlace(e)' = Place(d)
      OBVIOUS
    <2>1. Place(d) \in Roots \X Stamps \X Names
      BY <1>0, OwnPlace DEF CallOk
    <2>2. \/ disk[Place(d)].by = d /\ disk[Place(d)].whole
          \/ \E e \in Requests \ {d} : request[e].at # None /\ UploadPlace(e) = Place(d)
      BY <1>0 DEF CallOk
    <2> HIDE DEF SameBut
    <2> QED BY <2>1, <2>2, UploadsStay
  <1>4. request[d].at = None /\ request[d].pc \in DocOpen =>
           \A f \in request[d].wanted :
              \/ f \in InOrder(request[d].todo)
              \/ rows'[request[d].project][PathOf[f][request[d].meta]] # None
    <2> SUFFICES ASSUME request[d].at = None, request[d].pc \in DocOpen, NEW f \in request[d].wanted,
                        f \notin InOrder(request[d].todo)
                 PROVE  rows'[request[d].project][PathOf[f][request[d].meta]] # None
      OBVIOUS
    <2>1. request[d].project \in Projects /\ request[d].meta \in Metas /\ f \in Files
      BY <1>0 DEF CallOk, DocOpen, RequestFields
    <2>2. PathOf[f][request[d].meta] \in Paths
      BY <2>1 DEF Paths
    <2> QED BY <1>0, <2>1, <2>2 DEF CallOk, Moves
  <1>5. \A p : AttachedTo(p) \subseteq AttachedTo(p)'
    BY DEF Moves, AttachedTo
  <1>6. request[d].pc \in DocOpen => request[d].known \subseteq AttachedTo(request[d].project)'
    <2>1. request[d].pc \in DocOpen => request[d].known \subseteq AttachedTo(request[d].project)
      BY <1>0 DEF CallOk
    <2>2. AttachedTo(request[d].project)' = {a.upload : a \in {b \in attached' : b.project = request[d].project}}
      BY <1>0 DEF AttachedTo, SameBut
    <2> QED BY <2>1, <2>2 DEF AttachedTo, Moves
  <1> QED BY <1>0, <1>1, <1>2, <1>3, <1>4, <1>6 DEF CallOk, SameBut

\* A step that writes no file leaves every file with whom it was.
LEMMA KeepsDisk ==
  ASSUME ProjectDocsAssumption, DocInv, NEW c \in Requests, Moves(c), disk' = disk,
         request[c].pc = "fill" => request'[c].pc = "failed"
  PROVE  DiskOk'
  <1> SUFFICES ASSUME NEW place \in Places, disk[place].by # None, ~disk[place].whole
               PROVE  LET d == disk[place].by IN
                      /\ request'[d].pc \in {"fill", "failed"}
                      /\ request'[d].pc = "fill" => place = Place(d)'
    BY DEF DiskOk
  <1> DEFINE d == disk[place].by
  <1>1. /\ d \in Requests /\ request[d].pc \in {"fill", "failed"}
        /\ request[d].pc = "fill" => place = Place(d)
    BY DEF DocInv, DocTypes, DiskOk, FileState
  <1>2. CASE d = c
    BY <1>1, <1>2 DEF Moves
  <1>3. CASE d # c
    BY <1>1, <1>3 DEF Moves, SameBut, Place, Generating
  <1> QED BY <1>2, <1>3

\* A step that adds no attachment.
LEMMA KeepsAttached ==
  ASSUME ProjectDocsAssumption, DocInv, NEW c \in Requests, Moves(c), attached' = attached
  PROVE  AttachedOk'
  <1> SUFFICES ASSUME NEW a \in attached
               PROVE  /\ request'[a.upload].pc = "ended"
                      /\ \/ disk'[a.place].by = a.upload /\ disk'[a.place].whole
                         \/ \E d \in Requests \ {a.upload} :
                              request'[d].at # None /\ UploadPlace(d)' = a.place
    BY DEF AttachedOk
  <1>1. /\ a.upload \in Requests /\ a.place \in Roots \X Stamps \X Names
        /\ request[a.upload].pc = "ended"
        /\ \/ disk[a.place].by = a.upload /\ disk[a.place].whole
           \/ \E d \in Requests \ {a.upload} : request[d].at # None /\ UploadPlace(d) = a.place
    BY DEF DocInv, DocTypes, Attachment, AttachedOk
  <1>2. a.upload # c
    BY <1>1 DEF Moves
  <1>3. request'[a.upload].pc = "ended"
    BY <1>1, <1>2 DEF Moves, SameBut
  <1> QED BY <1>1, <1>2, <1>3, UploadsStay

\* Rows that stay point to files that stay.
LEMMA KeepsRows ==
  ASSUME ProjectDocsAssumption, DocInv, NEW c \in Requests, Moves(c), rows' = rows
  PROVE  RowOk'
  <1> SUFFICES ASSUME NEW p \in Projects, NEW path \in Paths, rows[p][path] # None
               PROVE  disk'[<<rows[p][path], path>>].by # None
    BY DEF RowOk
  <1>1. disk[<<rows[p][path], path>>].by # None /\ <<rows[p][path], path>> \in Places
    BY PlaceTypes DEF DocInv, DocTypes, RowOk
  <1>2. c # None
    BY DEF ProjectDocsAssumption
  <1> QED BY <1>1, <1>2 DEF Moves

LEMMA Together ==
  ASSUME ProjectDocsAssumption, DocInv, NEW c \in Requests, Moves(c), DocTypes', CallOk(c)', DiskOk', RowOk',
         AttachedOk'
  PROVE  DocInv'
  BY OthersOk DEF DocInv

(***************************************************************************)
(* How the calls begin.                                                    *)
(***************************************************************************)
LEMMA Begun ==
  ASSUME ProjectDocsAssumption, DocInv, NEW c \in Requests, request[c].pc = "unused",
         UNCHANGED <<meta, changes, disk, rows, attached>>,
         request' \in [Requests -> RequestFields], \A d \in Requests \ {c} : SameBut(d),
         NEW STATE x, request'[c] = x,
         x.pc \in {"open", "find", "hydrate", "refused"},
         x.pc # "refused" => x.project \in Projects /\ x.meta \in Metas,
         x.pc = "open" => x.todo = <<>> /\ x.at \in Stamps /\ x.name \in Names /\ x.known = {},
         x.pc \in {"find", "hydrate"} =>
            x.at = None /\ x.wanted \subseteq InOrder(x.todo) /\ x.known \subseteq AttachedTo(x.project),
         x.pc = "find" => x.todo # <<>>,
         x.pc \in {"hydrate", "refused"} => x.todo = <<>>
  PROVE  DocInv'
  <1>1. request[c].at = None
    BY DEF DocInv, CallOk
  <1>2. Moves(c)
    BY <1>1 DEF Moves
  <1>3. DocTypes'
    BY DEF DocInv, DocTypes
  <1>4. CallOk(c)'
    <2>1. Generating(c)' <=> x.todo # <<>>
      BY DEF Generating
    <2>2. \A p : AttachedTo(p)' = AttachedTo(p)
      BY DEF AttachedTo
    <2>3. x.pc = "open" => x.at # None
      BY DEF ProjectDocsAssumption
    <2>4. x.pc # "refused" => x.known \subseteq AttachedTo(request[c].project)'
      <3>1. AttachedTo(request[c].project)' = {a.upload : a \in {b \in attached' : b.project = x.project}}
        BY DEF AttachedTo
      <3> QED BY <3>1 DEF AttachedTo
    <2>5. CASE x.pc = "open"
      BY <2>1, <2>3, <2>4, <2>5 DEF CallOk, DocOpen
    <2>6. CASE x.pc = "find" \/ x.pc = "hydrate"
      BY <2>1, <2>4, <2>6 DEF CallOk, DocOpen
    <2>7. CASE x.pc = "refused"
      BY <2>1, <2>7 DEF CallOk, DocOpen
    <2> QED BY <2>5, <2>6, <2>7
  <1>5. DiskOk' /\ RowOk' /\ AttachedOk'
    BY <1>2, KeepsDisk, KeepsRows, KeepsAttached
  <1> QED BY <1>2, <1>3, <1>4, <1>5, Together

LEMMA FilesInOrder ==
  ASSUME ProjectDocsAssumption
  PROVE  /\ <<Main>> \in Seq(Files) /\ Main \in Files /\ InOrder(<<Main>>) = {Main}
         /\ \A s \in Seq(Files) : InOrder(s) \subseteq Files
  <1>1. Main \in Files
    BY DEF ProjectDocsAssumption, Files
  <1>2. InOrder(<<Main>>) = {Main}
    BY DEF InOrder
  <1>3. \A s \in Seq(Files) : InOrder(s) \subseteq Files
    BY DEF InOrder
  <1>4. <<Main>> \in Seq(Files)
    BY <1>1
  <1> QED BY <1>1, <1>2, <1>3, <1>4

LEMMA BeginKeeps == ASSUME ProjectDocsAssumption, DocInv, NEW c \in Requests, BeginRequest(c) PROVE DocInv'
  <1>0. DocTypes /\ meta \in [Projects -> Metas] /\ request \in [Requests -> RequestFields]
        /\ \A p : AttachedTo(p) \subseteq Requests
    BY DEF DocInv, DocTypes, AttachedTo, Attachment
  <1>1. ASSUME NEW p \in Projects, NEW at \in Stamps, NEW name \in Names, UploadAttachment(c, p, at, name)
        PROVE  DocInv'
    <2> DEFINE x == [NoRequest EXCEPT !.pc = "open", !.project = p, !.meta = meta[p], !.at = at, !.name = name]
    <2>1. /\ x \in RequestFields /\ x.pc = "open" /\ x.project = p /\ x.meta = meta[p]
          /\ x.todo = <<>> /\ x.at = at /\ x.name = name /\ x.known = {}
      BY <1>0, NoRequestType DEF RequestFields, DocPc, DocOpen
    <2>2. request[c].pc = "unused" /\ request' = [request EXCEPT ![c] = x]
          /\ UNCHANGED <<meta, changes, disk, rows, attached>>
      BY <1>1 DEF UploadAttachment
    <2> HIDE DEF x
    <2>3. request' \in [Requests -> RequestFields] /\ request'[c] = x /\ \A d \in Requests \ {c} : SameBut(d)
      BY <1>0, <2>1, <2>2 DEF SameBut
    <2> QED BY <1>0, <2>1, <2>2, <2>3, Begun
  <1>2. ASSUME NEW p \in Projects, NEW checklists \in BOOLEAN, NEW internkontroll \in BOOLEAN,
               GenerateStructure(c, p, checklists, internkontroll)
        PROVE  DocInv'
    <2> DEFINE todo == (IF checklists THEN Copied ELSE <<>>) \o (IF internkontroll THEN Asked ELSE <<>>)
               x == [NoRequest EXCEPT !.pc = IF todo = <<>> THEN "hydrate" ELSE "find",
                       !.project = p, !.meta = meta[p], !.todo = todo,
                       !.wanted = InOrder(todo), !.known = AttachedTo(p)]
    <2>1. todo \in Seq(Files) /\ InOrder(todo) \subseteq Files
      <3>1. todo \in Seq(Files)
        BY FilesInOrder, ConcatProperties DEF ProjectDocsAssumption
      <3> QED BY <3>1, FilesInOrder
    <2>2. /\ request[c].pc = "unused" /\ UNCHANGED <<meta, changes, disk, rows, attached>>
          /\ request' = [d \in Requests |->
                        IF d = c THEN x ELSE [request[d] EXCEPT !.alone = @ /\ todo = <<>>]]
      BY <1>2 DEF GenerateStructure
    <2> HIDE DEF todo
    <2>3. /\ x \in RequestFields /\ x.pc = (IF todo = <<>> THEN "hydrate" ELSE "find") /\ x.project = p
          /\ x.meta = meta[p] /\ x.todo = todo /\ x.at = None /\ x.wanted = InOrder(todo)
          /\ x.known = AttachedTo(p)
      BY <1>0, <2>1, NoRequestType DEF RequestFields, DocPc, DocOpen
    <2> HIDE DEF x
    <2>4. request'[c] = x /\ request' \in [Requests -> RequestFields] /\ \A d \in Requests \ {c} : SameBut(d)
      <3>1. ASSUME NEW d \in Requests, d # c PROVE request'[d] \in RequestFields /\ SameBut(d)
        <4>1. request'[d] = [request[d] EXCEPT !.alone = request[d].alone /\ todo = <<>>] /\ request[d] \in RequestFields
          BY <1>0, <2>2, <3>1
        <4> QED BY <4>1 DEF RequestFields, SameBut
      <3> QED BY <2>2, <2>3, <3>1
    <2> QED BY <1>0, <2>2, <2>3, <2>4, Begun
  <1>3. ASSUME NEW p \in Projects, RegenerateInternkontroll(c, p) PROVE DocInv'
    <2> DEFINE free == \A e \in Requests : ~Generating(e)
               x == [NoRequest EXCEPT !.pc = "find", !.project = p, !.meta = meta[p],
                       !.todo = <<Main>>, !.forced = TRUE, !.wanted = {Main},
                       !.known = AttachedTo(p), !.alone = free]
    <2>1. /\ request[c].pc = "unused" /\ UNCHANGED <<meta, changes, disk, rows, attached>>
          /\ request' = [d \in Requests |-> IF d = c THEN x ELSE [request[d] EXCEPT !.alone = FALSE]]
      BY <1>3 DEF RegenerateInternkontroll
    <2>2. free \in BOOLEAN
      OBVIOUS
    <2> HIDE DEF free
    <2>3. /\ x \in RequestFields /\ x.pc = "find" /\ x.project = p /\ x.meta = meta[p]
          /\ x.todo = <<Main>> /\ x.at = None /\ x.wanted = {Main} /\ x.known = AttachedTo(p)
      BY <1>0, <2>2, NoRequestType, FilesInOrder DEF RequestFields, DocPc, DocOpen
    <2> HIDE DEF x
    <2>4. request'[c] = x /\ request' \in [Requests -> RequestFields] /\ \A d \in Requests \ {c} : SameBut(d)
      <3>1. ASSUME NEW d \in Requests, d # c PROVE request'[d] \in RequestFields /\ SameBut(d)
        <4>1. request'[d] = [request[d] EXCEPT !.alone = FALSE] /\ request[d] \in RequestFields
          BY <1>0, <2>1, <3>1
        <4> QED BY <4>1 DEF RequestFields, SameBut
      <3> QED BY <2>1, <2>3, <3>1
    <2>5. <<Main>> # <<>>
      OBVIOUS
    <2> QED BY <1>0, <2>1, <2>3, <2>4, <2>5, FilesInOrder, Begun
  <1>4. ASSUME NEW p \in Projects, Refuse(c, p) PROVE DocInv'
    <2> DEFINE x == [NoRequest EXCEPT !.pc = "refused"]
    <2>1. x \in RequestFields /\ x.pc = "refused" /\ x.todo = <<>>
      BY NoRequestType DEF RequestFields, DocPc
    <2>2. request[c].pc = "unused" /\ request' = [request EXCEPT ![c] = x]
          /\ UNCHANGED <<meta, changes, disk, rows, attached>>
      BY <1>4 DEF Refuse
    <2> HIDE DEF x
    <2>3. request' \in [Requests -> RequestFields] /\ request'[c] = x /\ \A d \in Requests \ {c} : SameBut(d)
      BY <1>0, <2>1, <2>2 DEF SameBut
    <2> QED BY <2>1, <2>2, <2>3, Begun
  <1> QED BY <1>1, <1>2, <1>3, <1>4 DEF BeginRequest, GetFolderTree

(***************************************************************************)
(* How they go on.                                                         *)
(***************************************************************************)
\* A call under way: what it was begun with stays.
Continues(c, x) ==
    /\ x \in RequestFields /\ request' = [request EXCEPT ![c] = x]
    /\ x.project = request[c].project /\ x.meta = request[c].meta /\ x.at = request[c].at
    /\ x.name = request[c].name /\ x.wanted = request[c].wanted /\ x.known = request[c].known

LEMMA Continued ==
  ASSUME ProjectDocsAssumption, DocInv, NEW c \in Requests, request[c].pc \in DocOpen, NEW x \in RequestFields,
         Continues(c, x), UNCHANGED <<meta, changes>>
  PROVE  /\ request' \in [Requests -> RequestFields] /\ request'[c] = x /\ \A d \in Requests \ {c} : SameBut(d)
         /\ request[c] \in RequestFields /\ CallOk(c)
         /\ request[c].project \in Projects /\ request[c].meta \in Metas
         /\ UploadPlace(c)' = UploadPlace(c)
         /\ disk' = disk /\ rows' = rows /\ attached' = attached => Moves(c) /\ DocTypes'
         /\ attached' = attached => AttachedTo(x.project)' = AttachedTo(request[c].project)
         /\ AttachedTo(request[c].project) \subseteq Requests
  <1>1. request[c] \in RequestFields /\ CallOk(c) /\ DocTypes
    BY DEF DocInv, DocTypes
  <1>2. request' \in [Requests -> RequestFields] /\ request'[c] = x /\ \A d \in Requests \ {c} : SameBut(d)
    BY <1>1 DEF DocTypes, Continues, SameBut
  <1>3. request[c].project \in Projects /\ request[c].meta \in Metas
    BY <1>1 DEF CallOk, DocOpen
  <1>4. UploadPlace(c)' = UploadPlace(c)
    BY <1>2 DEF Continues, UploadPlace
  <1>5. disk' = disk /\ rows' = rows /\ attached' = attached => Moves(c) /\ DocTypes'
    BY <1>1, <1>2, <1>4 DEF Moves, Continues, DocTypes, DocOpen
  <1>6. attached' = attached => AttachedTo(x.project)' = AttachedTo(request[c].project)
    BY DEF AttachedTo, Continues
  <1>7. AttachedTo(request[c].project) \subseteq Requests
    BY <1>1 DEF AttachedTo, DocTypes, Attachment
  <1> QED BY <1>1, <1>2, <1>3, <1>4, <1>5, <1>6, <1>7

\* A step that changes the call alone.
LEMMA CallMoved ==
  ASSUME ProjectDocsAssumption, DocInv, NEW c \in Requests, request[c].pc \in DocOpen, NEW x \in RequestFields,
         Continues(c, x), UNCHANGED <<meta, changes, disk, rows, attached>>,
         request[c].pc = "fill" => x.pc = "failed",
         CallOk(c)'
  PROVE  DocInv'
  BY Continued, KeepsDisk, KeepsRows, KeepsAttached, Together

\* Of the files that are asked for, those not to be generated any more have a row.
LEMMA OnwardMoves ==
  ASSUME ProjectDocsAssumption, DocInv, NEW c \in Requests, request[c].pc \in {"find", "upsert"}, Onward(c)
  PROVE  \E x \in RequestFields :
            /\ Continues(c, x) /\ x.todo = Tail(request[c].todo) /\ x.at = None
            /\ x.pc = (IF x.todo = <<>> THEN "hydrate" ELSE "find")
            /\ \A f \in request[c].wanted :
                   \/ f \in InOrder(x.todo) \/ f = Head(request[c].todo)
                   \/ rows[request[c].project][PathOf[f][request[c].meta]] # None
  <1>0. request[c] \in RequestFields /\ CallOk(c) /\ request[c].todo \in Seq(Files) /\ request[c].todo # <<>>
    BY DEF DocInv, DocTypes, CallOk, RequestFields, Generating
  <1>1. /\ Tail(request[c].todo) \in Seq(Files)
        /\ \A f \in InOrder(request[c].todo) : f = Head(request[c].todo) \/ f \in InOrder(Tail(request[c].todo))
        /\ Len(request[c].todo) = 1 <=> Tail(request[c].todo) = <<>>
    BY <1>0, TodoTypes
  <1> DEFINE y == [request[c] EXCEPT !.todo = Tail(@), !.from = {},
                     !.pc = IF Len(request[c].todo) = 1 THEN "hydrate" ELSE "find"]
  <1>2. y \in RequestFields
    BY <1>0, <1>1 DEF RequestFields, DocPc, DocOpen
  <1>3. PICK x \in RequestFields : x = y
    BY <1>2
  <1>4. /\ x.todo = Tail(request[c].todo)
        /\ x.pc = IF Len(request[c].todo) = 1 THEN "hydrate" ELSE "find"
        /\ x.project = request[c].project /\ x.meta = request[c].meta /\ x.at = request[c].at
        /\ x.name = request[c].name /\ x.wanted = request[c].wanted /\ x.known = request[c].known
    BY <1>0, <1>3 DEF RequestFields
  <1>5. request' = [request EXCEPT ![c] = x]
    BY <1>3 DEF Onward
  <1> HIDE DEF y
  <1>6. request[c].at = None
    BY <1>0 DEF CallOk, Generating
  <1>7. \A f \in request[c].wanted : \/ f \in InOrder(request[c].todo)
                                     \/ rows[request[c].project][PathOf[f][request[c].meta]] # None
    BY <1>0, <1>6 DEF CallOk, DocOpen
  <1> QED BY <1>1, <1>4, <1>5, <1>6, <1>7 DEF Continues

\* After a step onward the call is as it should be, if the file it leaves behind has a row.
LEMMA OnwardOk ==
  ASSUME ProjectDocsAssumption, DocInv, NEW c \in Requests, request[c].pc \in {"find", "upsert"}, Onward(c),
         meta' = meta, changes' = changes, attached' = attached,
         \A p \in Projects, path \in Paths : rows[p][path] # None => rows'[p][path] # None,
         rows'[request[c].project][Place(c)[2]] # None
  PROVE  CallOk(c)' /\ \E x \in RequestFields : Continues(c, x) /\ x.pc \in {"find", "hydrate"}
  <1>1. PICK x \in RequestFields :
            /\ Continues(c, x) /\ x.todo = Tail(request[c].todo) /\ x.at = None
            /\ x.pc = (IF x.todo = <<>> THEN "hydrate" ELSE "find")
            /\ \A f \in request[c].wanted :
                   \/ f \in InOrder(x.todo) \/ f = Head(request[c].todo)
                   \/ rows[request[c].project][PathOf[f][request[c].meta]] # None
    BY OnwardMoves
  <1>2. /\ request'[c] = x /\ request[c] \in RequestFields /\ CallOk(c)
        /\ request[c].project \in Projects /\ request[c].meta \in Metas
        /\ AttachedTo(x.project)' = AttachedTo(request[c].project)
    BY <1>1, Continued DEF DocOpen
  <1>3. Place(c)[2] = PathOf[Head(request[c].todo)][request[c].meta]
    BY <1>2, OwnPlace DEF DocOpen, CallOk
  <1>4. \A f \in request[c].wanted : PathOf[f][request[c].meta] \in Paths
    BY <1>2 DEF RequestFields, Paths
  <1>5. \A f \in x.wanted : f \in InOrder(x.todo) \/ rows'[x.project][PathOf[f][x.meta]] # None
    BY <1>1, <1>2, <1>3, <1>4 DEF Continues
  <1>6. x.known \subseteq AttachedTo(x.project)'
    BY <1>1, <1>2 DEF CallOk, DocOpen, Continues
  <1>7. x.project \in Projects /\ x.meta \in Metas
    BY <1>1, <1>2 DEF Continues
  <1>8. Generating(c)' <=> x.todo # <<>>
    BY <1>2 DEF Generating
  <1>9. CASE x.todo = <<>>
    BY <1>1, <1>2, <1>5, <1>6, <1>7, <1>8, <1>9 DEF CallOk, DocOpen
  <1>10. CASE x.todo # <<>>
    BY <1>1, <1>2, <1>5, <1>6, <1>7, <1>8, <1>10 DEF CallOk, DocOpen
  <1> QED BY <1>1, <1>9, <1>10

LEMMA FindKeeps == ASSUME ProjectDocsAssumption, DocInv, NEW c \in Requests, Find(c) PROVE DocInv'
  <1>1. /\ request[c].pc = "find" /\ UNCHANGED <<meta, changes, disk, rows, attached>>
        /\ request[c].pc \in DocOpen
    BY DEF Find, DocOpen
  <1>2. CASE rows[request[c].project][Place(c)[2]] # None /\ Onward(c)
    <2>1. CallOk(c)' /\ \E x \in RequestFields : Continues(c, x)
      BY <1>1, <1>2, OnwardOk
    <2> QED BY <1>1, <2>1, CallMoved
  <1>3. CASE request' = [request EXCEPT ![c].pc = IF Head(request[c].todo) \in InOrder(Asked) THEN "gather" ELSE "open"]
    <2>0. request[c] \in RequestFields /\ CallOk(c)
      BY DEF DocInv, DocTypes
    <2> DEFINE y == [request[c] EXCEPT !.pc = IF Head(request[c].todo) \in InOrder(Asked) THEN "gather" ELSE "open"]
    <2>1. y \in RequestFields
      BY <2>0 DEF RequestFields, DocPc, DocOpen
    <2>2. PICK x \in RequestFields : x = y
      BY <2>1
    <2>3. /\ Continues(c, x) /\ x.todo = request[c].todo /\ x.pc \in {"gather", "open"}
      BY <1>3, <2>0, <2>2 DEF RequestFields, Continues
    <2> HIDE DEF y
    <2>4. /\ request'[c] = x /\ AttachedTo(x.project)' = AttachedTo(request[c].project)
          /\ request[c].project \in Projects /\ request[c].meta \in Metas
      BY <1>1, <2>3, Continued
    <2>5. Generating(c) /\ Generating(c)' /\ request[c].at = None
      BY <1>1, <2>0, <2>3, <2>4 DEF CallOk, Generating
    <2>6. CallOk(c)'
      BY <1>1, <2>0, <2>3, <2>4, <2>5 DEF CallOk, DocOpen, Continues
    <2> QED BY <1>1, <2>3, <2>6, CallMoved
  <1> QED BY <1>2, <1>3 DEF Find

LEMMA GatherKeeps == ASSUME ProjectDocsAssumption, DocInv, NEW c \in Requests, Gather(c) PROVE DocInv'
  <1>1. /\ request[c].pc = "gather" /\ UNCHANGED <<meta, changes, disk, rows, attached>>
        /\ request[c].pc \in DocOpen
    BY DEF Gather, DocOpen
  <1>2. request[c] \in RequestFields /\ CallOk(c) /\ AttachedTo(request[c].project) \subseteq Requests
    BY DEF DocInv, DocTypes, AttachedTo, Attachment
  <1> DEFINE y == [request[c] EXCEPT !.pc = "open", !.from = AttachedTo(request[c].project)]
  <1>3. y \in RequestFields
    BY <1>2 DEF RequestFields, DocPc, DocOpen
  <1>4. PICK x \in RequestFields : x = y
    BY <1>3
  <1>5. /\ Continues(c, x) /\ x.todo = request[c].todo /\ x.pc = "open"
    BY <1>2, <1>4 DEF RequestFields, Continues, Gather
  <1> HIDE DEF y
  <1>6. /\ request'[c] = x /\ AttachedTo(x.project)' = AttachedTo(request[c].project)
        /\ request[c].project \in Projects /\ request[c].meta \in Metas
    BY <1>1, <1>5, Continued
  <1>7. Generating(c) /\ Generating(c)' /\ request[c].at = None
    BY <1>1, <1>2, <1>5, <1>6 DEF CallOk, Generating
  <1>8. CallOk(c)'
    BY <1>1, <1>2, <1>5, <1>6, <1>7 DEF CallOk, DocOpen, Continues
  <1> QED BY <1>1, <1>5, <1>8, CallMoved

\* A step that writes the file at the call's place.
LEMMA FileWritten ==
  ASSUME ProjectDocsAssumption, DocInv, NEW c \in Requests, request[c].pc \in {"open", "fill"},
         NEW x \in RequestFields, Continues(c, x), x.todo = request[c].todo,
         NEW file \in FileState, file.by = c, disk' = [disk EXCEPT ![Place(c)] = file],
         x.pc = "fill" \/ file.whole,
         x.pc = "upsert" => Generating(c), x.pc = "insert" => ~Generating(c) /\ file.whole,
         x.pc \in {"fill", "upsert", "insert"},
         UNCHANGED <<meta, changes, rows, attached>>
  PROVE  DocInv'
  <1>1. /\ request' \in [Requests -> RequestFields] /\ request'[c] = x /\ \A d \in Requests \ {c} : SameBut(d)
        /\ request[c] \in RequestFields /\ CallOk(c)
        /\ request[c].project \in Projects /\ request[c].meta \in Metas
        /\ UploadPlace(c)' = UploadPlace(c)
        /\ AttachedTo(x.project)' = AttachedTo(request[c].project)
    BY Continued DEF DocOpen
  <1>2. Place(c) \in Places
    BY OwnPlace DEF DocOpen
  <1>3. disk \in [Places -> FileState]
    BY DEF DocInv, DocTypes
  <1>4. disk'[Place(c)] = file /\ \A place \in Places : place # Place(c) => disk'[place] = disk[place]
    BY <1>2, <1>3
  <1>5. Moves(c)
    BY <1>1, <1>4 DEF Moves, Continues
  <1>6. DocTypes'
    BY <1>1, <1>2, <1>3 DEF DocInv, DocTypes
  <1>7. Place(c)' = Place(c) /\ (Generating(c)' <=> Generating(c))
    BY <1>1 DEF Place, Generating, Continues
  <1>8. c # None
    BY DEF ProjectDocsAssumption
  <1>9. disk[Place(c)]' = file
    BY <1>4, <1>7
  <1>10. CallOk(c)'
    <2>1. CASE Generating(c)
      BY <1>1, <1>7, <1>8, <1>9, <2>1 DEF CallOk, DocOpen, Continues
    <2>2. CASE ~Generating(c)
      BY <1>1, <1>7, <1>8, <1>9, <2>2 DEF CallOk, DocOpen, Continues
    <2> QED BY <2>1, <2>2
  <1>11. DiskOk'
    <2>1. ASSUME NEW place \in Places, disk'[place].by # None, ~disk'[place].whole
          PROVE  \E d \in Requests : /\ d = disk'[place].by /\ request'[d].pc \in {"fill", "failed"}
                                     /\ request'[d].pc = "fill" => place = Place(d)'
      <3>1. CASE place = Place(c)
        <4>1. disk'[place].by = c /\ ~file.whole
          BY <1>4, <2>1, <3>1
        <4>2. request'[c].pc = "fill"
          BY <1>1, <4>1
        <4> QED BY <1>7, <3>1, <4>1, <4>2
      <3>2. CASE place # Place(c)
        <4>1. disk'[place] = disk[place]
          BY <1>4, <3>2
        <4>2. disk[place].by # None /\ ~disk[place].whole
          BY <2>1, <4>1
        <4>3. PICK d \in Requests : d = disk[place].by
          BY <1>3, <4>2 DEF FileState
        <4>4. /\ request[d].pc \in {"fill", "failed"}
              /\ request[d].pc = "fill" => place = Place(d)
          BY <4>2, <4>3 DEF DocInv, DiskOk
        <4>5. d # c
          BY <3>2, <4>4
        <4>6. SameBut(d)
          BY <1>1, <4>5
        <4>7. request'[d].pc = request[d].pc /\ Place(d)' = Place(d)
          BY <4>6 DEF SameBut, Place, Generating
        <4> QED BY <4>1, <4>3, <4>4, <4>7
      <3> QED BY <3>1, <3>2
    <2> QED BY <2>1 DEF DiskOk, Place, Generating
  <1> QED BY <1>5, <1>6, <1>10, <1>11, KeepsRows, KeepsAttached, Together

LEMMA OpenKeeps == ASSUME ProjectDocsAssumption, DocInv, NEW c \in Requests, Open(c) PROVE DocInv'
  <1>1. request[c] \in RequestFields
    BY DEF DocInv, DocTypes
  <1>2. PICK x \in RequestFields : x = [request[c] EXCEPT !.pc = "fill"]
    BY <1>1 DEF RequestFields, DocPc, DocOpen
  <1>3. PICK file \in FileState : file = [NoFile EXCEPT !.by = c]
    BY NoRequestType DEF FileState
  <1>4. file.by = c
    BY <1>3 DEF NoFile
  <1>5. Continues(c, x) /\ x.todo = request[c].todo /\ x.pc = "fill"
    BY <1>1, <1>2 DEF RequestFields, Continues, Open
  <1>6. /\ request[c].pc = "open" /\ disk' = [disk EXCEPT ![Place(c)] = file]
        /\ UNCHANGED <<meta, changes, rows, attached>>
    BY <1>3 DEF Open
  <1> QED BY <1>4, <1>5, <1>6, FileWritten

LEMMA FillKeeps == ASSUME ProjectDocsAssumption, DocInv, NEW c \in Requests, Fill(c) PROVE DocInv'
  <1>1. request[c] \in RequestFields
    BY DEF DocInv, DocTypes
  <1>2. PICK x \in RequestFields : x = [request[c] EXCEPT !.pc = IF Generating(c) THEN "upsert" ELSE "insert"]
    BY <1>1 DEF RequestFields, DocPc, DocOpen
  <1>3. PICK file \in FileState :
            file = [by |-> c, whole |-> TRUE, of |-> request[c].meta, from |-> request[c].from]
    BY <1>1 DEF FileState, RequestFields
  <1>4. file.by = c /\ file.whole
    BY <1>3
  <1>5. /\ Continues(c, x) /\ x.todo = request[c].todo
        /\ x.pc = IF Generating(c) THEN "upsert" ELSE "insert"
    BY <1>1, <1>2 DEF RequestFields, Continues, Fill
  <1>6. /\ request[c].pc = "fill" /\ disk' = [disk EXCEPT ![Place(c)] = file]
        /\ UNCHANGED <<meta, changes, rows, attached>>
    BY <1>3 DEF Fill
  <1> QED BY <1>4, <1>5, <1>6, FileWritten

LEMMA UpsertKeeps == ASSUME ProjectDocsAssumption, DocInv, NEW c \in Requests, UpsertFile(c) PROVE DocInv'
  <1>1. /\ request[c].pc = "upsert" /\ request[c].pc \in DocOpen /\ Onward(c)
        /\ rows' = [rows EXCEPT ![request[c].project][Place(c)[2]] = Place(c)[1]]
        /\ UNCHANGED <<meta, changes, disk, attached>>
    BY DEF UpsertFile, DocOpen
  <1>2. /\ request[c] \in RequestFields /\ CallOk(c) /\ Generating(c) /\ disk[Place(c)].by # None
        /\ rows \in [Projects -> [Paths -> Roots \cup {None}]] /\ request[c].project \in Projects
    BY <1>1 DEF DocInv, DocTypes, CallOk
  <1>3. Place(c)[1] \in Roots /\ Place(c)[2] \in Paths /\ Place(c) = <<Place(c)[1], Place(c)[2]>>
    BY <1>1, <1>2, OwnPlace
  <1>4. PICK root \in Roots : root = Place(c)[1]
    BY <1>3
  <1>5. PICK path \in Paths : path = Place(c)[2]
    BY <1>3
  <1>6. PICK p \in Projects : p = request[c].project
    BY <1>2
  <1>7. rows' = [rows EXCEPT ![p] = [rows[p] EXCEPT ![path] = root]] /\ Place(c) = <<root, path>>
    BY <1>1, <1>3, <1>4, <1>5, <1>6
  <1>8. root # None
    BY DEF ProjectDocsAssumption
  <1>9. /\ rows' \in [Projects -> [Paths -> Roots \cup {None}]]
        /\ rows'[p][path] = root
        /\ \A q \in Projects, other \in Paths :
              q # p \/ other # path => rows'[q][other] = rows[q][other]
    BY <1>2, <1>7
  <1>10. \A q \in Projects, other \in Paths : rows[q][other] # None => rows'[q][other] # None
    BY <1>8, <1>9
  <1>11. rows'[request[c].project][Place(c)[2]] # None
    BY <1>5, <1>6, <1>8, <1>9
  <1>12. CallOk(c)' /\ \E x \in RequestFields : Continues(c, x)
    BY <1>1, <1>10, <1>11, OnwardOk
  <1>13. PICK x \in RequestFields : Continues(c, x)
    BY <1>12
  <1>14. /\ request' \in [Requests -> RequestFields] /\ \A d \in Requests \ {c} : SameBut(d)
         /\ UploadPlace(c)' = UploadPlace(c) /\ request'[c] = x
    BY <1>1, <1>13, Continued
  <1>15. Moves(c)
    BY <1>1, <1>10, <1>13, <1>14 DEF Moves, Continues
  <1>16. DocTypes'
    BY <1>1, <1>9, <1>14 DEF DocInv, DocTypes
  <1>17. RowOk'
    BY <1>1, <1>2, <1>7, <1>9 DEF DocInv, RowOk
  <1> QED BY <1>1, <1>12, <1>15, <1>16, <1>17, KeepsDisk, KeepsAttached, Together

LEMMA InsertKeeps == ASSUME ProjectDocsAssumption, DocInv, NEW c \in Requests, Insert(c) PROVE DocInv'
  <1>1. /\ request[c].pc = "insert" /\ request[c].pc \in DocOpen
        /\ UNCHANGED <<meta, changes, disk, rows>>
    BY DEF Insert, DocOpen
  <1>2. /\ request[c] \in RequestFields /\ CallOk(c) /\ ~Generating(c) /\ request[c].project \in Projects
        /\ request[c].meta \in Metas
    BY <1>1 DEF DocInv, DocTypes, CallOk, DocOpen
  <1>3. Place(c) \in Roots \X Stamps \X Names /\ Place(c) = UploadPlace(c) /\ request[c].at # None
    BY <1>1, <1>2, OwnPlace
  <1>4. PICK x \in RequestFields : x = [request[c] EXCEPT !.pc = "ended"]
    BY <1>2 DEF RequestFields, DocPc
  <1>5. Continues(c, x) /\ x.todo = request[c].todo /\ x.pc = "ended"
    BY <1>2, <1>4 DEF RequestFields, Continues, Insert
  <1>6. PICK new \in Attachment :
            new = [project |-> request[c].project, upload |-> c, place |-> Place(c)]
    BY <1>2, <1>3 DEF Attachment
  <1>7. attached' = attached \cup {new} /\ new.upload = c /\ new.place = Place(c)
    BY <1>6 DEF Insert
  <1>8. /\ request' \in [Requests -> RequestFields] /\ \A d \in Requests \ {c} : SameBut(d)
        /\ UploadPlace(c)' = UploadPlace(c) /\ request'[c] = x
    BY <1>1, <1>5, Continued
  <1>9. Moves(c)
    BY <1>1, <1>5, <1>7, <1>8 DEF Moves, Continues
  <1>10. DocTypes'
    BY <1>1, <1>7, <1>8 DEF DocInv, DocTypes
  <1>11. ~Generating(c)' /\ x.at # None
    BY <1>2, <1>3, <1>5, <1>8 DEF Generating, Continues
  <1>12. CallOk(c)'
    BY <1>2, <1>5, <1>8, <1>11 DEF CallOk, DocOpen, Continues
  <1>13. AttachedOk'
    <2>1. ASSUME NEW a \in attached
          PROVE  /\ request'[a.upload].pc = "ended"
                 /\ \/ disk'[a.place].by = a.upload /\ disk'[a.place].whole
                    \/ \E d \in Requests \ {a.upload} :
                         request'[d].at # None /\ UploadPlace(d)' = a.place
      <3>1. /\ a.upload \in Requests /\ a.place \in Roots \X Stamps \X Names
            /\ request[a.upload].pc = "ended"
            /\ \/ disk[a.place].by = a.upload /\ disk[a.place].whole
               \/ \E d \in Requests \ {a.upload} : request[d].at # None /\ UploadPlace(d) = a.place
        BY DEF DocInv, DocTypes, Attachment, AttachedOk
      <3>2. a.upload # c
        BY <1>1, <3>1
      <3>3. request'[a.upload].pc = "ended"
        BY <1>8, <3>1, <3>2 DEF SameBut
      <3> QED BY <1>9, <3>1, <3>2, <3>3, UploadsStay
    <2>2. \/ disk[Place(c)].by = c /\ disk[Place(c)].whole
          \/ \E d \in Requests \ {c} : request[d].at # None /\ UploadPlace(d) = Place(c)
      BY <1>1, <1>2 DEF CallOk
    <2>3. \A d \in Requests \ {c} : request[d].at # None /\ UploadPlace(d) = Place(c) =>
                                 request'[d].at # None /\ UploadPlace(d)' = Place(c)
      BY <1>8 DEF SameBut, UploadPlace
    <2> QED BY <1>1, <1>5, <1>7, <1>8, <2>1, <2>2, <2>3 DEF AttachedOk
  <1> QED BY <1>1, <1>9, <1>10, <1>12, <1>13, KeepsDisk, KeepsRows, Together

LEMMA HydrateKeeps == ASSUME ProjectDocsAssumption, DocInv, NEW c \in Requests, Hydrate(c) PROVE DocInv'
  <1>1. /\ request[c].pc = "hydrate" /\ request[c].pc \in DocOpen
        /\ UNCHANGED <<meta, changes, disk, rows, attached>>
    BY DEF Hydrate, DocOpen
  <1>2. request[c] \in RequestFields /\ CallOk(c) /\ request[c].todo = <<>>
    BY <1>1 DEF DocInv, DocTypes, CallOk, Generating
  <1> DEFINE shown == {f \in Files : rows[request[c].project][PathOf[f][request[c].meta]] # None}
  <1>3. PICK x \in RequestFields : x = [request[c] EXCEPT !.pc = "inject", !.shown = shown]
    BY <1>2 DEF RequestFields, DocPc, DocOpen
  <1>4. Continues(c, x) /\ x.todo = <<>> /\ x.pc = "inject" /\ x.shown = shown
    BY <1>2, <1>3 DEF RequestFields, Continues, Hydrate
  <1>5. /\ request'[c] = x /\ AttachedTo(x.project)' = AttachedTo(request[c].project)
        /\ request[c].project \in Projects /\ request[c].meta \in Metas
    BY <1>1, <1>4, Continued
  <1>6. request[c].at = None => request[c].wanted \subseteq shown
    BY <1>1, <1>2 DEF CallOk, InOrder, RequestFields
  <1> HIDE DEF shown
  <1>7. ~Generating(c)' /\ x.at = request[c].at /\ x.wanted = request[c].wanted
    BY <1>4, <1>5 DEF Generating, Continues
  <1>8. x.at = None => \A f \in x.wanted : rows'[x.project][PathOf[f][x.meta]] # None
    BY <1>1, <1>2, <1>4 DEF CallOk, InOrder, Continues
  <1>9. x.known \subseteq AttachedTo(x.project)'
    BY <1>1, <1>2, <1>4, <1>5 DEF CallOk, Continues
  <1>10. CallOk(c)'
    BY <1>4, <1>5, <1>6, <1>7, <1>8, <1>9 DEF CallOk, DocOpen, Continues
  <1> QED BY <1>1, <1>4, <1>10, CallMoved

LEMMA InjectKeeps == ASSUME ProjectDocsAssumption, DocInv, NEW c \in Requests, Inject(c) PROVE DocInv'
  <1>1. /\ request[c].pc = "inject" /\ request[c].pc \in DocOpen
        /\ UNCHANGED <<meta, changes, disk, rows, attached>>
    BY DEF Inject, DocOpen
  <1>2. request[c] \in RequestFields /\ CallOk(c) /\ request[c].todo = <<>>
        /\ AttachedTo(request[c].project) \subseteq Requests
    BY <1>1 DEF DocInv, DocTypes, CallOk, Generating, AttachedTo, Attachment
  <1>3. PICK x \in RequestFields : x = [request[c] EXCEPT !.pc = "ended", !.listed = AttachedTo(request[c].project)]
    BY <1>2 DEF RequestFields, DocPc
  <1>4. /\ Continues(c, x) /\ x.todo = <<>> /\ x.pc = "ended"
        /\ x.listed = AttachedTo(request[c].project) /\ x.shown = request[c].shown
    BY <1>2, <1>3 DEF RequestFields, Continues, Inject
  <1>5. /\ request'[c] = x /\ request[c].project \in Projects /\ request[c].meta \in Metas
    BY <1>1, <1>4, Continued
  <1>6. ~Generating(c)'
    BY <1>4, <1>5 DEF Generating
  <1>7. CallOk(c)'
    BY <1>1, <1>2, <1>4, <1>5, <1>6 DEF CallOk, DocOpen, Continues
  <1> QED BY <1>1, <1>4, <1>7, CallMoved

LEMMA FailKeeps == ASSUME ProjectDocsAssumption, DocInv, NEW c \in Requests, Fail(c) PROVE DocInv'
  <1>1. /\ request[c].pc \in DocOpen /\ UNCHANGED <<meta, changes, disk, rows, attached>>
    BY DEF Fail
  <1>2. request[c] \in RequestFields /\ CallOk(c) /\ <<>> \in Seq(Files)
    BY DEF DocInv, DocTypes
  <1>3. PICK x \in RequestFields : x = [request[c] EXCEPT !.pc = "failed", !.todo = <<>>, !.alone = FALSE]
    BY <1>2 DEF RequestFields, DocPc
  <1>4. Continues(c, x) /\ x.todo = <<>> /\ x.pc = "failed"
    BY <1>2, <1>3 DEF RequestFields, Continues, Fail
  <1>5. /\ request'[c] = x /\ request[c].project \in Projects /\ request[c].meta \in Metas
    BY <1>1, <1>4, Continued
  <1>6. ~Generating(c)'
    BY <1>4, <1>5 DEF Generating
  <1>7. CallOk(c)'
    BY <1>4, <1>5, <1>6 DEF CallOk, DocOpen, Continues
  <1> QED BY <1>1, <1>4, <1>7, CallMoved

(***************************************************************************)
(* Together.                                                               *)
(***************************************************************************)
\* Steps that change of the calls only whether they are alone.
LEMMA BesideKeeps ==
  ASSUME ProjectDocsAssumption, DocInv, UNCHANGED <<disk, rows, attached>>,
         meta' \in [Projects -> Metas], changes' \in Nat, request' \in [Requests -> RequestFields],
         \A d \in Requests : SameBut(d)
  PROVE  DocInv'
  <1>1. DocTypes'
    BY DEF DocInv, DocTypes
  <1>2. ASSUME NEW d \in Requests
        PROVE  /\ Place(d)' = Place(d) /\ (Generating(d)' <=> Generating(d))
               /\ UploadPlace(d)' = UploadPlace(d)
    BY DEF SameBut, Place, Generating, UploadPlace
  <1>3. ASSUME NEW d \in Requests PROVE CallOk(d)'
    <2>1. CallOk(d) /\ SameBut(d)
      BY DEF DocInv
    <2>2. AttachedTo(request[d].project)' = AttachedTo(request[d].project)
      BY <2>1 DEF AttachedTo, SameBut
    <2>3. \A e \in Requests : request'[e].at = request[e].at /\ UploadPlace(e)' = UploadPlace(e)
      BY <1>2 DEF SameBut
    <2>4. request[d].pc = "insert" => \/ disk'[Place(d)'].by = d /\ disk'[Place(d)'].whole
                                      \/ \E e \in Requests \ {d} : request'[e].at # None /\ UploadPlace(e)' = Place(d)'
      BY <1>2, <2>1, <2>3 DEF CallOk
    <2> QED BY <1>2, <2>1, <2>2, <2>4 DEF CallOk, SameBut
  <1>4. DiskOk'
    BY <1>2 DEF DocInv, DocTypes, DiskOk, FileState, SameBut
  <1>5. RowOk'
    BY DEF DocInv, RowOk
  <1>6. AttachedOk'
    <2>1. \A e \in Requests : request'[e].at = request[e].at /\ request'[e].pc = request[e].pc /\ UploadPlace(e)' = UploadPlace(e)
      BY <1>2 DEF SameBut
    <2> QED BY <2>1 DEF DocInv, DocTypes, Attachment, AttachedOk
  <1> QED BY <1>1, <1>3, <1>4, <1>5, <1>6 DEF DocInv

LEMMA DocStep == ASSUME ProjectDocsAssumption, DocInv, [DocNext]_docVars PROVE DocInv'
  <1>1. ASSUME NEW p \in Projects, NEW m \in Metas, ChangeMeta(p, m) PROVE DocInv'
    <2>0. DocTypes
      BY DEF DocInv
    <2>1. /\ meta' = [meta EXCEPT ![p] = m] /\ changes' = changes + 1
          /\ request' = [c \in Requests |-> [request[c] EXCEPT !.alone = @ /\ request[c].project # p]]
          /\ UNCHANGED <<disk, rows, attached>>
      BY <1>1 DEF ChangeMeta
    <2>2. ASSUME NEW d \in Requests PROVE request'[d] \in RequestFields /\ SameBut(d)
      <3>1. request'[d] = [request[d] EXCEPT !.alone = request[d].alone /\ request[d].project # p]
            /\ request[d] \in RequestFields
        BY <2>0, <2>1 DEF DocTypes
      <3>2. (request[d].alone /\ request[d].project # p) \in BOOLEAN
        OBVIOUS
      <3> QED BY <3>1, <3>2 DEF RequestFields, SameBut
    <2>3. meta' \in [Projects -> Metas] /\ changes' \in Nat
      BY <2>0, <2>1 DEF DocTypes
    <2>4. request' = [d \in Requests |-> request'[d]]
      BY <2>1
    <2>5. request' \in [Requests -> RequestFields]
      BY <2>2, <2>4
    <2> QED BY <2>1, <2>2, <2>3, <2>5, BesideKeeps
  <1>2. CASE UNCHANGED docVars
    BY <1>2, BesideKeeps DEF docVars, SameBut, DocInv, DocTypes
  <1>3. ASSUME NEW c \in Requests,
               \/ BeginRequest(c) \/ Find(c) \/ Gather(c) \/ Open(c) \/ Fill(c) \/ UpsertFile(c) \/ Insert(c)
               \/ Hydrate(c) \/ Inject(c) \/ Fail(c)
        PROVE  DocInv'
    BY <1>3, BeginKeeps, FindKeeps, GatherKeeps, OpenKeeps, FillKeeps, UpsertKeeps, InsertKeeps,
       HydrateKeeps, InjectKeeps, FailKeeps
  <1> QED BY <1>1, <1>2, <1>3 DEF DocNext

THEOREM DocsInvariant == ASSUME ProjectDocsAssumption PROVE DocSpec => []DocInv
  <1>1. DocInit => DocInv
    BY InitDoc
  <1>2. DocInv /\ [DocNext]_docVars => DocInv'
    BY DocStep
  <1> QED BY <1>1, <1>2, PTL DEF DocSpec

(***************************************************************************)
(* A row never points to nothing: writeGeneratedFile writes the row after  *)
(* the file, nothing removes a file, and a file that is half written is    *)
(* in the hands of the call that writes it, or was left by one that        *)
(* failed.  Uploads write where no generated file lies, so an attachment   *)
(* is what was uploaded unless another upload has the same place.          *)
(***************************************************************************)
THEOREM RowsHaveTheirFiles == ASSUME ProjectDocsAssumption PROVE DocSpec => []RowsHaveFiles
  <1>1. ASSUME DocInv PROVE RowsHaveFiles
    <2>1. ASSUME NEW p \in Projects, NEW path \in Paths, rows[p][path] # None
          PROVE  /\ disk[<<rows[p][path], path>>].by # None
                 /\ ~disk[<<rows[p][path], path>>].whole =>
                       request[disk[<<rows[p][path], path>>].by].pc \in {"fill", "failed"}
      <3>1. rows[p][path] \in Roots
        BY <1>1, <2>1 DEF DocInv, DocTypes
      <3>2. <<rows[p][path], path>> \in Places
        BY <3>1, PlaceTypes
      <3> QED BY <1>1, <2>1, <3>2 DEF DocInv, RowOk, DiskOk
    <2>2. \A a \in attached :
            \/ disk[a.place].by = a.upload /\ disk[a.place].whole
            \/ \E c \in Requests \ {a.upload} :
                  request[c].at # None /\ <<RootOf[request[c].meta], request[c].at, request[c].name>> = a.place
      BY <1>1 DEF DocInv, AttachedOk, UploadPlace
    <2> QED BY <2>1, <2>2 DEF RowsHaveFiles
  <1> QED BY <1>1, DocsInvariant, PTL

(***************************************************************************)
(* The tree generateStructure and regenerateInternkontroll answer shows    *)
(* every file that was asked for and lists every attachment there was when *)
(* the call began: rows and attachments are never removed, and the call    *)
(* looks for its files by the metadata it has read once.                   *)
(***************************************************************************)
THEOREM TreesComplete == ASSUME ProjectDocsAssumption PROVE DocSpec => []AnswersAreComplete
  <1>1. DocInv => AnswersAreComplete
    BY DEF DocInv, CallOk, AnswersAreComplete
  <1> QED BY <1>1, DocsInvariant, PTL

(***************************************************************************)
(* A regeneration that is alone.  Nobody else generates while it is, so    *)
(* the row and the place it writes are its own: uploads go elsewhere, and  *)
(* whoever begins to generate, or changes the metadata, takes its being    *)
(* alone away.  It writes what it has read, and reads every attachment     *)
(* there was when it began.                                                *)
(***************************************************************************)
MainPlace(m) == <<RootOf[m], PathOf[Main][m]>>

Made(c) ==
    LET x == request[c]
        made == disk[MainPlace(x.meta)]
    IN  made.by = c /\ made.whole /\ made.of = x.meta /\ x.known \subseteq made.from

RowMade(c) ==
    LET x == request[c] IN rows[x.project][PathOf[Main][x.meta]] = RootOf[x.meta]

Repairing(c) ==
    LET x == request[c] IN
    x.alone =>
        /\ x.forced /\ x.project \in Projects /\ x.meta = meta[x.project]
        /\ \A e \in Requests \ {c} : ~Generating(e)
        /\ x.pc \in {"find", "gather", "open", "fill", "upsert"} => x.todo = <<Main>>
        /\ x.pc \in {"open", "fill", "upsert"} => x.known \subseteq x.from
        /\ x.pc \in {"find", "gather", "open", "fill", "upsert", "hydrate", "inject", "ended"}
        /\ x.pc \in {"upsert", "hydrate", "inject", "ended"} => Made(c)
        /\ x.pc \in {"hydrate", "inject", "ended"} => RowMade(c)

RepairInv == \A c \in Requests : Repairing(c)

\* What leaves a regeneration, its row, its file and its metadata alone keeps the invariant.
LEMMA RepairFrame ==
  ASSUME ProjectDocsAssumption, DocInv, NEW c \in Requests, Repairing(c),
         request'[c] = request[c],
         request[c].alone =>
            /\ meta'[request[c].project] = meta[request[c].project]
            /\ disk'[MainPlace(request[c].meta)] = disk[MainPlace(request[c].meta)]
            /\ rows'[request[c].project] = rows[request[c].project]
            /\ \A e \in Requests \ {c} : ~Generating(e)'
  PROVE  Repairing(c)'
  <1> SUFFICES ASSUME request[c].alone PROVE Repairing(c)'
    BY DEF Repairing
  <1>1. MainPlace(request[c].meta)' = MainPlace(request[c].meta)
    BY DEF MainPlace
  <1>2. Made(c)' <=> Made(c)
    BY <1>1 DEF Made
  <1>3. RowMade(c)' <=> RowMade(c)
    BY DEF RowMade
  <1> QED BY <1>2, <1>3 DEF Repairing

\* Where the file of a regeneration lies, and that no upload is written there.
LEMMA MainPlaces ==
  ASSUME ProjectDocsAssumption, DocInv, NEW c \in Requests, Repairing(c), request[c].alone
  PROVE  /\ request[c].meta \in Metas /\ request[c].project \in Projects
         /\ MainPlace(request[c].meta) \in Places
         /\ PathOf[Main][request[c].meta] \in Paths
         /\ request[c].pc \in {"find", "gather", "open", "fill", "upsert"} =>
               Generating(c) /\ Place(c) = MainPlace(request[c].meta)
         /\ \A d \in Requests \ {c} : request[d].pc \in {"open", "fill"} =>
               Place(d) # MainPlace(request[c].meta)
  <1>1. request[c].meta \in Metas /\ request[c].project \in Projects
    BY DEF Repairing, DocInv, DocTypes
  <1>2. MainPlace(request[c].meta) \in Places /\ PathOf[Main][request[c].meta] \in Paths
    BY <1>1, FilesInOrder, PlaceTypes DEF MainPlace, Roots
  <1>3. request[c].pc \in {"find", "gather", "open", "fill", "upsert"} =>
          Generating(c) /\ Place(c) = MainPlace(request[c].meta)
    BY DEF Repairing, Generating, Place, MainPlace
  <1>4. ASSUME NEW d \in Requests \ {c}, request[d].pc \in {"open", "fill"}
        PROVE  Place(d) # MainPlace(request[c].meta)
    <2>1. ~Generating(d)
      BY DEF Repairing
    <2>2. Place(d) \in Roots \X Stamps \X Names
      BY <1>4, <2>1, OwnPlace
    <2> QED BY <2>2, PlacesApart DEF MainPlace
  <1> QED BY <1>1, <1>2, <1>3, <1>4

\* Another call's step.
LEMMA RepairBeside ==
  ASSUME ProjectDocsAssumption, DocInv, RepairInv, NEW c \in Requests, NEW d \in Requests, c # d,
         \/ BeginRequest(d) \/ Find(d) \/ Gather(d) \/ Open(d) \/ Fill(d) \/ UpsertFile(d) \/ Insert(d)
         \/ Hydrate(d) \/ Inject(d) \/ Fail(d)
  PROVE  Repairing(c)'
  <1>0. /\ Repairing(c) /\ request \in [Requests -> RequestFields] /\ disk \in [Places -> FileState]
        /\ CallOk(d) /\ request[c] \in RequestFields
    BY DEF RepairInv, DocInv, DocTypes
  <1>1. CASE BeginRequest(d)
    <2>1. UNCHANGED <<meta, disk, rows>>
      BY <1>1 DEF BeginRequest, UploadAttachment, GenerateStructure, RegenerateInternkontroll,
                  GetFolderTree, Refuse
    <2>2. ASSUME NEW x, x.todo = <<>>, request' = [request EXCEPT ![d] = x]
          PROVE  Repairing(c)'
      BY <1>0, <2>1, <2>2, RepairFrame DEF Repairing, Generating
    <2>3. ASSUME NEW p \in Projects, NEW checklists \in BOOLEAN, NEW internkontroll \in BOOLEAN,
                 GenerateStructure(d, p, checklists, internkontroll)
          PROVE  Repairing(c)'
      <3>1. PICK todo, x : /\ x.todo = todo
                           /\ request' = [e \in Requests |->
                                IF e = d THEN x ELSE [request[e] EXCEPT !.alone = @ /\ todo = <<>>]]
        <4> DEFINE t == (IF checklists THEN Copied ELSE <<>>) \o (IF internkontroll THEN Asked ELSE <<>>)
                   y == [NoRequest EXCEPT !.pc = IF t = <<>> THEN "hydrate" ELSE "find",
                           !.project = p, !.meta = meta[p], !.todo = t,
                           !.wanted = InOrder(t), !.known = AttachedTo(p)]
        <4>1. request' = [e \in Requests |->
                            IF e = d THEN y ELSE [request[e] EXCEPT !.alone = @ /\ t = <<>>]]
          BY <2>3 DEF GenerateStructure
        <4>2. y.todo = t
          BY DEF NoRequest
        <4> HIDE DEF t, y
        <4> QED BY <4>1, <4>2
      <3>2. \A e \in Requests : request[e] \in RequestFields
        BY <1>0
      <3>3. \A e \in Requests \ {d} : request'[e] = [request[e] EXCEPT !.alone = @ /\ todo = <<>>]
        BY <3>1
      <3>4. CASE todo = <<>>
        <4>1. \A e \in Requests \ {d} : request'[e] = request[e]
          <5> SUFFICES ASSUME NEW e \in Requests \ {d} PROVE request'[e] = request[e]
            OBVIOUS
          <5>1. request[e].alone \in BOOLEAN /\ request[e] \in RequestFields
            BY <3>2 DEF RequestFields
          <5>2. (request[e].alone /\ todo = <<>>) = request[e].alone
            BY <3>4, <5>1, Zenon
          <5>3. [request[e] EXCEPT !.alone = request[e].alone] = request[e]
            BY <5>1 DEF RequestFields
          <5> QED BY <3>3, <5>2, <5>3, Zenon
        <4>2. request'[d].todo = <<>>
          BY <3>1, <3>4
        <4> QED BY <1>0, <2>1, <4>1, <4>2, RepairFrame DEF Repairing, Generating
      <3>5. CASE todo # <<>>
        <4>1. ~request'[c].alone
          BY <3>2, <3>3, <3>5 DEF RequestFields
        <4> QED BY <4>1 DEF Repairing
      <3> QED BY <3>4, <3>5
    <2>4. ASSUME NEW p \in Projects, RegenerateInternkontroll(d, p) PROVE Repairing(c)'
      <3>1. request'[c] = [request[c] EXCEPT !.alone = FALSE]
        BY <2>4 DEF RegenerateInternkontroll
      <3>2. ~request'[c].alone
        BY <1>0, <3>1 DEF RequestFields
      <3> QED BY <3>2 DEF Repairing
    <2>5. ASSUME NEW p \in Projects, NEW at \in Stamps, NEW name \in Names, UploadAttachment(d, p, at, name)
          PROVE  Repairing(c)'
      <3> DEFINE x == [NoRequest EXCEPT !.pc = "open", !.project = p, !.meta = meta[p], !.at = at, !.name = name]
      <3>1. x.todo = <<>> /\ request' = [request EXCEPT ![d] = x]
        BY <2>5 DEF UploadAttachment, NoRequest
      <3> HIDE DEF x
      <3> QED BY <2>2, <3>1
    <2>6. ASSUME NEW p \in Projects, Refuse(d, p) PROVE Repairing(c)'
      <3> DEFINE x == [NoRequest EXCEPT !.pc = "refused"]
      <3>1. x.todo = <<>> /\ request' = [request EXCEPT ![d] = x]
        BY <2>6 DEF Refuse, NoRequest
      <3> HIDE DEF x
      <3> QED BY <2>2, <3>1
    <2> QED BY <1>1, <2>3, <2>4, <2>5, <2>6 DEF BeginRequest, GetFolderTree
  <1>2. CASE Find(d) \/ Gather(d) \/ UpsertFile(d)
    <2>1. Generating(d)
      BY <1>0, <1>2 DEF CallOk, Find, Gather, UpsertFile
    <2>2. ~request[c].alone
      BY <1>0, <2>1 DEF Repairing
    <2>3. request'[c] = request[c]
      BY <1>0, <1>2 DEF Find, Gather, UpsertFile, Onward
    <2> QED BY <2>2, <2>3 DEF Repairing
  <1>3. CASE Open(d) \/ Fill(d)
    <2>1. /\ UNCHANGED <<meta, rows>> /\ request'[c] = request[c] /\ request'[d].todo = request[d].todo
          /\ \A e \in Requests \ {d} : request'[e] = request[e]
          /\ \A place \in Places : place # Place(d) => disk'[place] = disk[place]
          /\ request[d].pc \in {"open", "fill"}
      BY <1>0, <1>3 DEF Open, Fill, RequestFields
    <2>2. request[c].alone => disk'[MainPlace(request[c].meta)] = disk[MainPlace(request[c].meta)]
      BY <1>0, <2>1, MainPlaces
    <2> QED BY <1>0, <2>1, <2>2, RepairFrame DEF Repairing, Generating
  <1>4. CASE Insert(d) \/ Hydrate(d) \/ Inject(d) \/ Fail(d)
    <2>1. /\ UNCHANGED <<meta, rows, disk>> /\ (request'[d].todo = request[d].todo \/ request'[d].todo = <<>>)
          /\ \A e \in Requests \ {d} : request'[e] = request[e]
      BY <1>0, <1>4 DEF Insert, Hydrate, Inject, Fail, RequestFields
    <2> QED BY <1>0, <2>1, RepairFrame DEF Repairing, Generating
  <1> QED BY <1>1, <1>2, <1>3, <1>4

\* How a regeneration begins: alone, if nobody generates.
LEMMA RepairBegun ==
  ASSUME ProjectDocsAssumption, DocInv, RepairInv, NEW c \in Requests, BeginRequest(c)
  PROVE  Repairing(c)'
  <1>0. request \in [Requests -> RequestFields] /\ meta \in [Projects -> Metas]
    BY DEF DocInv, DocTypes
  <1>1. ASSUME NEW x, ~x.alone, request'[c] = x PROVE Repairing(c)'
    BY <1>1 DEF Repairing
  <1>2. ASSUME NEW p \in Projects, RegenerateInternkontroll(c, p) PROVE Repairing(c)'
    <2> DEFINE free == \A e \in Requests : ~Generating(e)
               x == [NoRequest EXCEPT !.pc = "find", !.project = p, !.meta = meta[p],
                       !.todo = <<Main>>, !.forced = TRUE, !.wanted = {Main},
                       !.known = AttachedTo(p), !.alone = free]
    <2>1. /\ request'[c] = x /\ UNCHANGED meta
          /\ \A e \in Requests \ {c} : request'[e] = [request[e] EXCEPT !.alone = FALSE]
      BY <1>2 DEF RegenerateInternkontroll
    <2>2. /\ x.pc = "find" /\ x.project = p /\ x.meta = meta[p] /\ x.todo = <<Main>> /\ x.forced
          /\ x.alone = free
      BY DEF NoRequest
    <2>3. ASSUME NEW e \in Requests \ {c} PROVE request'[e].todo = request[e].todo
      <3>1. request[e] \in RequestFields /\ request'[e] = [request[e] EXCEPT !.alone = FALSE]
        BY <1>0, <2>1
      <3> QED BY <3>1 DEF RequestFields
    <2>4. free => \A e \in Requests \ {c} : ~Generating(e)'
      BY <2>3 DEF Generating
    <2>5. request'[c].alone => \A e \in Requests \ {c} : ~Generating(e)'
      BY <2>1, <2>2, <2>4
    <2> HIDE DEF x, free
    <2> QED BY <2>1, <2>2, <2>5 DEF Repairing
  <1>3. ASSUME NEW p \in Projects, NEW checklists \in BOOLEAN, NEW internkontroll \in BOOLEAN,
               GenerateStructure(c, p, checklists, internkontroll)
        PROVE  ~request'[c].alone
    BY <1>3 DEF GenerateStructure, NoRequest
  <1>4. ASSUME NEW p \in Projects, NEW at \in Stamps, NEW name \in Names, UploadAttachment(c, p, at, name)
        PROVE  ~request'[c].alone
    BY <1>0, <1>4 DEF UploadAttachment, NoRequest
  <1>5. ASSUME NEW p \in Projects, Refuse(c, p) PROVE ~request'[c].alone
    BY <1>0, <1>5 DEF Refuse, NoRequest
  <1> QED BY <1>1, <1>2, <1>3, <1>4, <1>5 DEF BeginRequest, GetFolderTree

\* How it goes on, up to the file: what it has read stays, and so does everybody else.
LEMMA RepairOwn ==
  ASSUME ProjectDocsAssumption, DocInv, RepairInv, NEW c \in Requests,
         \/ Find(c) \/ Gather(c) \/ Open(c) \/ Fill(c) \/ UpsertFile(c) \/ Insert(c)
         \/ Hydrate(c) \/ Inject(c) \/ Fail(c)
  PROVE  Repairing(c)'
  <1>0. /\ Repairing(c) /\ request \in [Requests -> RequestFields] /\ request[c] \in RequestFields
        /\ CallOk(c) /\ disk \in [Places -> FileState]
        /\ rows \in [Projects -> [Paths -> Roots \cup {None}]]
    BY DEF RepairInv, DocInv, DocTypes
  <1>1. CASE ~request[c].alone
    <2>1. ~request'[c].alone
      BY <1>0, <1>1 DEF Find, Onward, Gather, Open, Fill, UpsertFile, Insert, Hydrate, Inject, Fail, RequestFields
    <2> QED BY <2>1 DEF Repairing
  <1>2. CASE Fail(c)
    <2>1. ~request'[c].alone
      BY <1>0, <1>2 DEF Fail, RequestFields
    <2> QED BY <2>1 DEF Repairing
  <1>3. ASSUME request[c].alone, ~Fail(c) PROVE Repairing(c)'
    <2> DEFINE m == request[c].meta
               p == request[c].project
    <2>1. /\ UNCHANGED meta /\ \A e \in Requests \ {c} : request'[e] = request[e]
          /\ request'[c].forced = request[c].forced /\ request'[c].project = p /\ request'[c].meta = m
          /\ request'[c].known = request[c].known
      BY <1>0, <1>3 DEF Find, Onward, Gather, Open, Fill, UpsertFile, Insert, Hydrate, Inject, RequestFields
    <2>2. /\ request[c].forced /\ p \in Projects /\ m = meta[p] /\ m \in Metas
          /\ \A e \in Requests \ {c} : ~Generating(e)
          /\ MainPlace(m) \in Places /\ PathOf[Main][m] \in Paths /\ RootOf[m] # None
      <3>1. MainPlace(m) \in Places /\ PathOf[Main][m] \in Paths /\ m \in Metas
        BY <1>0, <1>3, MainPlaces
      <3>2. RootOf[m] \in Roots
        BY <3>1, PlaceTypes DEF Roots
      <3> QED BY <1>0, <1>3, <3>1, <3>2 DEF Repairing, ProjectDocsAssumption
    <2>3. \A e \in Requests \ {c} : ~Generating(e)'
      BY <2>1, <2>2 DEF Generating
    <2>4. MainPlace(m)' = MainPlace(request'[c].meta)
      BY <2>1 DEF MainPlace
    <2>5. /\ Made(c)' <=> LET made == disk'[MainPlace(m)]
                          IN made.by = c /\ made.whole /\ made.of = m /\ request[c].known \subseteq made.from
          /\ RowMade(c)' <=> rows'[p][PathOf[Main][m]] = RootOf[m]
      BY <2>1 DEF Made, RowMade, MainPlace
    <2>6. CASE Find(c)
      <3>1. request[c].todo = <<Main>> /\ Head(request[c].todo) \in InOrder(Asked)
        BY <1>0, <1>3, <2>6 DEF Repairing, Find, ProjectDocsAssumption
      <3>2. request'[c].pc = "gather" /\ request'[c].todo = <<Main>>
        BY <1>0, <2>2, <2>6, <3>1 DEF Find, RequestFields
      <3> QED BY <2>1, <2>2, <2>3, <3>2 DEF Repairing
    <2>7. CASE Gather(c)
      <3>1. /\ request'[c].pc = "open" /\ request'[c].todo = request[c].todo
            /\ request'[c].from = AttachedTo(p) /\ request[c].pc = "gather"
        BY <1>0, <2>7 DEF Gather, RequestFields
      <3>2. request[c].todo = <<Main>>
        BY <1>0, <1>3, <3>1 DEF Repairing
      <3>3. request[c].known \subseteq AttachedTo(p)
        BY <1>0, <3>1 DEF CallOk, DocOpen
      <3> QED BY <2>1, <2>2, <2>3, <3>1, <3>2, <3>3 DEF Repairing
    <2>8. CASE Open(c)
      <3>1. /\ request'[c].pc = "fill" /\ request'[c].todo = request[c].todo
            /\ request'[c].from = request[c].from /\ request[c].pc = "open"
        BY <1>0, <2>8 DEF Open, RequestFields
      <3>2. request[c].todo = <<Main>> /\ request[c].known \subseteq request[c].from
        BY <1>0, <1>3, <3>1 DEF Repairing
      <3> QED BY <2>1, <2>2, <2>3, <3>1, <3>2 DEF Repairing
    <2>9. CASE Fill(c)
      <3>1. /\ request'[c].todo = request[c].todo
            /\ request'[c].from = request[c].from /\ request[c].pc = "fill"
            /\ request'[c].pc = IF Generating(c) THEN "upsert" ELSE "insert"
            /\ disk' = [disk EXCEPT ![Place(c)] =
                         [by |-> c, whole |-> TRUE, of |-> m, from |-> request[c].from]]
        BY <1>0, <2>9 DEF Fill, RequestFields
      <3>2. /\ request[c].todo = <<Main>> /\ request[c].known \subseteq request[c].from
            /\ Generating(c) /\ Place(c) = MainPlace(m)
        BY <1>0, <1>3, <3>1, MainPlaces DEF Repairing
      <3>3. disk'[MainPlace(m)] = [by |-> c, whole |-> TRUE, of |-> m, from |-> request[c].from]
        BY <1>0, <2>2, <3>1, <3>2
      <3>4. Made(c)'
        BY <2>5, <3>2, <3>3
      <3> QED BY <2>1, <2>2, <2>3, <3>1, <3>2, <3>4 DEF Repairing
    <2>10. CASE UpsertFile(c)
      <3>1. request[c].pc = "upsert" /\ request[c].todo = <<Main>> /\ Made(c)
            /\ Place(c) = MainPlace(m) /\ UNCHANGED disk
        BY <1>0, <1>3, <2>10, MainPlaces DEF Repairing, UpsertFile
      <3>2. rows' = [rows EXCEPT ![p][PathOf[Main][m]] = RootOf[m]]
        BY <2>10, <3>1 DEF UpsertFile, MainPlace
      <3>3. rows'[p][PathOf[Main][m]] = RootOf[m]
        BY <1>0, <2>2, <3>2
      <3>4. Made(c)'
        BY <2>5, <3>1 DEF Made
      <3>5. request'[c].pc = "hydrate"
        <4>1. Len(request[c].todo) = 1
          BY <3>1
        <4> QED BY <1>0, <2>10, <4>1 DEF UpsertFile, Onward, RequestFields
      <3> QED BY <2>1, <2>2, <2>3, <2>5, <3>3, <3>4, <3>5 DEF Repairing
    <2>11. CASE Insert(c)
      <3>1. request[c].pc = "insert"
        BY <2>11 DEF Insert
      <3> QED BY <1>0, <1>3, <3>1 DEF Repairing
    <2>12. CASE Hydrate(c) \/ Inject(c)
      <3>1. request'[c].pc \in {"inject", "ended"} /\ UNCHANGED <<disk, rows>>
            /\ request[c].pc \in {"hydrate", "inject"}
        BY <1>0, <2>12 DEF Hydrate, Inject, RequestFields
      <3>2. Made(c) /\ RowMade(c)
        BY <1>0, <1>3, <3>1 DEF Repairing
      <3>3. Made(c)' /\ RowMade(c)'
        BY <2>5, <3>1, <3>2 DEF Made, RowMade
      <3> QED BY <2>1, <2>2, <2>3, <3>1, <3>3 DEF Repairing
    <2> QED BY <1>3, <2>6, <2>7, <2>8, <2>9, <2>10, <2>11, <2>12
  <1> QED BY <1>1, <1>2, <1>3

LEMMA RepairStep ==
  ASSUME ProjectDocsAssumption, DocInv, RepairInv, [DocNext]_docVars
  PROVE  RepairInv'
  <1> SUFFICES ASSUME NEW c \in Requests PROVE Repairing(c)'
    BY DEF RepairInv
  <1>0. /\ Repairing(c) /\ request \in [Requests -> RequestFields] /\ meta \in [Projects -> Metas]
        /\ request[c] \in RequestFields
    BY DEF RepairInv, DocInv, DocTypes
  <1>1. ASSUME NEW p \in Projects, NEW m \in Metas, ChangeMeta(p, m) PROVE Repairing(c)'
    <2>1. /\ UNCHANGED <<disk, rows>> /\ meta' = [meta EXCEPT ![p] = m]
          /\ \A e \in Requests : request'[e] = [request[e] EXCEPT !.alone = @ /\ request[e].project # p]
      BY <1>1 DEF ChangeMeta
    <2>2. CASE ~request[c].alone \/ request[c].project = p
      <3>1. request'[c].alone = (request[c].alone /\ request[c].project # p)
        BY <1>0, <2>1 DEF RequestFields
      <3> QED BY <2>2, <3>1 DEF Repairing
    <2>3. CASE request[c].alone /\ request[c].project # p
      <3>1. request[c].alone = TRUE
        BY <1>0, <2>3 DEF RequestFields
      <3>2. [request[c] EXCEPT !.alone = TRUE] = request[c]
        BY <1>0, <3>1 DEF RequestFields
      <3>3. (request[c].alone /\ request[c].project # p) = TRUE
        BY <2>3, <3>1, Zenon
      <3>4. request'[c] = request[c]
        BY <2>1, <3>2, <3>3, Zenon
      <3>5. \A e \in Requests : request'[e].todo = request[e].todo
        BY <1>0, <2>1 DEF RequestFields
      <3>6. meta'[request[c].project] = meta[request[c].project]
        BY <1>0, <2>1, <2>3 DEF Repairing
      <3> QED BY <1>0, <2>1, <3>4, <3>5, <3>6, RepairFrame DEF Repairing, Generating
    <2> QED BY <2>2, <2>3
  <1>2. CASE UNCHANGED docVars
    BY <1>0, <1>2, RepairFrame DEF docVars, Repairing, Generating
  <1>3. ASSUME NEW d \in Requests,
               \/ BeginRequest(d) \/ Find(d) \/ Gather(d) \/ Open(d) \/ Fill(d) \/ UpsertFile(d)
               \/ Insert(d) \/ Hydrate(d) \/ Inject(d) \/ Fail(d)
        PROVE  Repairing(c)'
    BY <1>3, RepairBeside, RepairBegun, RepairOwn
  <1> QED BY <1>1, <1>2, <1>3 DEF DocNext

\* Whatever earlier calls have left half done, a regeneration that has the generating to itself
\* leaves the file whole, of the metadata there are and of every attachment known to it, and
\* the row pointing to it.
THEOREM Regenerated == ASSUME ProjectDocsAssumption PROVE DocSpec => []RegenerationRepairs
  <1>1. DocInit => RepairInv
    BY DEF DocInit, NoRequest, RepairInv, Repairing
  <1>2. DocInv /\ RepairInv /\ [DocNext]_docVars => RepairInv'
    BY RepairStep
  <1>3. RepairInv => RegenerationRepairs
    BY DEF RepairInv, Repairing, Made, RowMade, MainPlace, RegenerationRepairs
  <1> QED BY <1>1, <1>2, <1>3, DocsInvariant, PTL DEF DocSpec

=============================================================================
