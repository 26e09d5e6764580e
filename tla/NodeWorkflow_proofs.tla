------------------------ MODULE NodeWorkflow_proofs ------------------------
(***************************************************************************)
(* Theorems about the life of a document node, for any fields, values,     *)
(* generations and clients, taking turns or not.                           *)
(***************************************************************************)
EXTENDS NodeWorkflow, TLAPS

----------------------------------------------------------------------------
(* Lemmas about the operators *)

\* A call that ends is a well-typed record again, and no other call is disturbed.
LEMMA ReturnTyped ==
    ASSUME TypeOK, NEW g \in Generations, NEW pc \in GenPc, Return(g, pc)
    PROVE  /\ gen' \in [Generations -> GenRecord]
           /\ gen'[g].pc = pc
           /\ \A h \in Generations \ {g} : gen'[h] = gen[h]
<1> DEFINE c == [UnusedGen EXCEPT !.pc = pc]
<1>1. Blank \in Content
  BY DEF Blank, Content
<1>2. c \in GenRecord /\ c.pc = pc
  BY <1>1 DEF UnusedGen, GenRecord, GenPc
<1>3. gen' = [gen EXCEPT ![g] = c]
  BY DEF Return
<1> HIDE DEF c
<1> QED
  BY <1>2, <1>3 DEF TypeOK

LEMMA WrittenContent == TypeOK => Written[turns] \subseteq Content
BY NodeWorkflowAssumption DEF TypeOK

LEMMA PayloadTyped ==
    ASSUME NEW seen, NEW payload \in Payloads(seen)
    PROVE  payload \in Content
<1>1. PICK v \in [Fields -> Values \cup {NoValue}] : payload = [fields |-> v, form |-> NoForm]
  BY DEF Payloads
<1> QED
  BY <1>1 DEF Content

LEMMA PayloadFilled ==
    ASSUME NEW seen, NEW payload \in Payloads(seen), NEW f \in Fields
    PROVE  payload.fields[f] \in Filled(Existing(seen, f))
<1>1. PICK v \in [Fields -> Values \cup {NoValue}] :
        /\ payload = [fields |-> v, form |-> NoForm]
        /\ \A g \in Fields : v[g] \in Filled(Existing(seen, g))
  BY DEF Payloads
<1> QED
  BY <1>1

\* What the builder finds for a field that no earlier one of its id shadows is its own value.
LEMMA ExistingUnshadowed ==
    ASSUME NEW data, NEW f \in Fields, data.fields[f] # NoField, ~Shadowed(data, f)
    PROVE  Existing(data, f) = data.fields[f]
<1> DEFINE N == Namesakes(data, f)
           first == CHOOSE g \in N : \A h \in N : g <= h
<1>1. f \in N /\ N \subseteq Nat
  BY NodeWorkflowAssumption DEF Namesakes
<1>2. \A g \in N : ~(g < f)
  BY DEF Shadowed
<1>3. \A h \in N : f <= h
  BY <1>1, <1>2
<1>4. first \in N /\ \A h \in N : first <= h
  BY <1>1, <1>3
<1>5. first = f
  BY <1>1, <1>3, <1>4
<1>6. Existing(data, f) = data.fields[first]
  BY <1>1 DEF Existing
<1> QED
  BY <1>5, <1>6

----------------------------------------------------------------------------
(* Type correctness *)

LEMMA InitType == Init => TypeOK
<1> SUFFICES ASSUME Init PROVE TypeOK
  OBVIOUS
<1>1. Blank \in Content
  BY DEF Blank, Content
<1>2. UnusedGen \in GenRecord
  BY <1>1 DEF UnusedGen, GenRecord, GenPc
<1> QED
  BY <1>1, <1>2, NodeWorkflowAssumption DEF Init, TypeOK, NodeRecord

LEMMA NextType == TypeOK /\ [Next]_vars => TypeOK'
<1> SUFFICES ASSUME TypeOK, [Next]_vars PROVE TypeOK'
  OBVIOUS
<1> USE NodeWorkflowAssumption DEF TypeOK
<1>0. Blank \in Content
  BY DEF Blank, Content
<1>1. ASSUME NEW status \in Statuses \cup {"DRAFT"}, NEW data \in Written[turns], CreateNode(status, data)
      PROVE  TypeOK'
  <2> DEFINE first == [number |-> 1, by |-> {}, basis |-> 0,
                       previous |-> NoData, replaced |-> Blank]
  <2>1. first \in RevisionRecord
    BY <1>0 DEF RevisionRecord
  <2>2. status \in NodeStatus
    BY DEF NodeStatus
  <2>3. node' \in NodeRecord
    BY <1>1, <2>2 DEF CreateNode, NodeRecord
  <2>4. revisions' = {first}
    BY <1>1 DEF CreateNode
  <2> HIDE DEF first
  <2> QED
    BY <1>1, <2>1, <2>3, <2>4 DEF CreateNode
<1>2. ASSUME NEW status \in Statuses \cup {"DRAFT"}, NEW data \in Written[turns], CreateBareNode(status, data)
      PROVE  TypeOK'
  <2>1. status \in NodeStatus
    BY DEF NodeStatus
  <2> QED
    BY <1>2, <2>1 DEF CreateBareNode, NodeRecord
<1>3. CASE Remove
  BY <1>3 DEF Remove, NodeRecord
<1>4. ASSUME NEW v \in Views, Load(v) PROVE TypeOK'
  BY <1>4 DEF Load, NodeRecord
<1>5. ASSUME NEW v \in Views, NEW data \in Written[turns], Save(v, data) PROVE TypeOK'
  BY <1>5 DEF Save, NodeRecord
<1>6. ASSUME NEW v \in Views, Close(v) PROVE TypeOK'
  BY <1>6 DEF Close
<1>7. ASSUME NEW status \in Statuses, SetStatus(status) PROVE TypeOK'
  BY <1>7 DEF SetStatus, NodeRecord
<1>8. CASE NewModel
  BY <1>8 DEF NewModel
<1>9. ASSUME NEW g \in Generations, ReadNode(g) PROVE TypeOK'
  <2> DEFINE c == [UnusedGen EXCEPT !.pc = "requirements", !.seen = node.data]
  <2>1. c \in GenRecord
    BY <1>0 DEF UnusedGen, GenRecord, GenPc, NodeRecord
  <2>2. gen' = [gen EXCEPT ![g] = c]
    BY <1>9 DEF ReadNode
  <2> HIDE DEF c
  <2> QED
    BY <1>9, <2>1, <2>2 DEF ReadNode
<1>10. ASSUME NEW g \in Generations, ReadRequirements(g) PROVE TypeOK'
  <2> DEFINE c == [gen[g] EXCEPT !.pc = "retrieve", !.basis = model]
  <2>1. c \in GenRecord
    BY DEF GenRecord, GenPc
  <2>2. gen' = [gen EXCEPT ![g] = c]
    BY <1>10 DEF ReadRequirements
  <2> HIDE DEF c
  <2> QED
    BY <1>10, <2>1, <2>2 DEF ReadRequirements
<1>11. ASSUME NEW g \in Generations, Retrieve(g) PROVE TypeOK'
  <2>1. gen[g].seen \in Content
    BY DEF GenRecord
  <2>2. PICK payload \in Payloads(gen[g].seen) :
          gen' = [gen EXCEPT ![g].pc = "last", ![g].result = payload]
    BY <1>11 DEF Retrieve
  <2>3. payload \in Content
    BY PayloadTyped
  <2> DEFINE c == [gen[g] EXCEPT !.pc = "last", !.result = payload]
  <2>4. c \in GenRecord
    BY <2>3 DEF GenRecord, GenPc
  <2>5. gen' = [gen EXCEPT ![g] = c]
    BY <2>2
  <2> HIDE DEF c
  <2> QED
    BY <1>11, <2>4, <2>5 DEF Retrieve
<1>12. ASSUME NEW g \in Generations, ReadLast(g) PROVE TypeOK'
  <2>1. PICK n \in {0} \cup {r.number : r \in revisions} :
          gen' = [gen EXCEPT ![g].pc = "commit", ![g].number = n + 1]
    BY <1>12 DEF ReadLast
  <2>2. n + 1 \in Nat /\ gen[g] \in GenRecord
    BY DEF RevisionRecord
  <2> DEFINE k == n + 1
             c == [gen[g] EXCEPT !.pc = "commit", !.number = k]
  <2> HIDE DEF k
  <2>3. c \in GenRecord
    <3>1. k \in Nat
      BY <2>2 DEF k
    <3> QED
      BY <2>2, <3>1 DEF GenRecord, GenPc
  <2>4. gen' = [gen EXCEPT ![g] = c]
    BY <2>1 DEF k
  <2> HIDE DEF c
  <2> QED
    BY <1>12, <2>3, <2>4 DEF ReadLast
<1>13. ASSUME NEW g \in Generations, Commit(g) PROVE TypeOK'
  <2>1. gen[g].seen \in Content /\ gen[g].result \in Content
          /\ gen[g].basis \in Nat /\ gen[g].number \in Nat
    BY DEF GenRecord
  <2>2. Revision(g) \in RevisionRecord
    BY <2>1 DEF Revision, RevisionRecord, NodeRecord
  <2>3. node' \in NodeRecord
    BY <1>13, <2>1 DEF Commit, NodeRecord, NodeStatus
  <2>4. gen' \in [Generations -> GenRecord]
    BY <1>13, ReturnTyped DEF Commit, GenPc
  <2> QED
    BY <1>13, <2>2, <2>3, <2>4 DEF Commit
<1>14. ASSUME NEW g \in Generations, GenerateFails(g) PROVE TypeOK'
  <2>1. gen' \in [Generations -> GenRecord]
    BY <1>14, ReturnTyped DEF GenerateFails, GenPc
  <2> QED
    BY <1>14, <2>1 DEF GenerateFails
<1>15. CASE UNCHANGED vars
  BY <1>15 DEF vars
<1> QED
  BY <1>1, <1>2, <1>3, <1>4, <1>5, <1>6, <1>7, <1>8, <1>9, <1>10, <1>11, <1>12, <1>13, <1>14, <1>15
     DEF Next, Client, Generate

\* Every reachable state of the node, its history and the calls at work on it is well typed.
THEOREM TypeCorrect == Spec => []TypeOK
<1> QED
  BY InitType, NextType, PTL DEF Spec

----------------------------------------------------------------------------
(* The history of a node *)

\* What makes the numbering inductive: a generation inside its transaction holds a number
\* that is taken, or the next one; and a node that is not there yet has no history.
NumberInv ==
    /\ HistoryNumbered
    /\ \A g \in Generations : gen[g].pc = "commit" => gen[g].number \in 1 .. (node.current + 1)
    /\ node.status = "ABSENT" => revisions = {} /\ node.current = 0

\* What one step does to the history: nothing, begin it, or append the one revision of a
\* generation that thereby is done.
Extends(g) ==
    /\ gen[g].pc = "commit" /\ gen'[g].pc = "done"
    /\ \A r \in revisions : r.number # gen[g].number
    /\ revisions' = revisions \cup {Revision(g)}
    /\ node'.current = gen[g].number /\ node'.status = "PENDING_REVIEW"
    /\ \A h \in Generations \ {g} : gen'[h] = gen[h]

LEMMA InitNumber == Init => NumberInv
<1> SUFFICES ASSUME Init PROVE NumberInv
  OBVIOUS
<1>1. \A g \in Generations : gen[g].pc = "unused"
  BY DEF Init, UnusedGen
<1> QED
  BY <1>1 DEF Init, NumberInv, HistoryNumbered

LEMMA CommitExtends ==
    ASSUME TypeOK, NEW g \in Generations, Commit(g)
    PROVE  Extends(g)
<1>1. gen'[g].pc = "done" /\ \A h \in Generations \ {g} : gen'[h] = gen[h]
  BY ReturnTyped DEF Commit, GenPc
<1> QED
  BY <1>1 DEF Commit, Extends

\* The unique constraint leaves a generation only the next number.
LEMMA ExtendsNumber ==
    ASSUME TypeOK, NumberInv, NEW g \in Generations, Extends(g)
    PROVE  NumberInv'
<1> DEFINE n == gen[g].number
           k == node.current
<1>1. n \in Nat /\ k \in Nat
  BY DEF TypeOK, GenRecord, NodeRecord
<1>2. n \in 1 .. (k + 1) /\ \A r \in revisions : r.number # n
  BY DEF NumberInv, Extends
<1>3. n = k + 1
  BY <1>1, <1>2 DEF NumberInv, HistoryNumbered
<1>4. node'.current = k + 1 /\ revisions' = revisions \cup {Revision(g)}
  BY <1>3 DEF Extends
<1>5. Revision(g).number = k + 1
  BY <1>3 DEF Revision
<1>6. HistoryNumbered'
  <2>1. \A r \in revisions' : r.number \in 1 .. (k + 1)
    BY <1>1, <1>4, <1>5 DEF NumberInv, HistoryNumbered
  <2>2. ASSUME NEW m \in 1 .. (k + 1) PROVE \E r \in revisions' : r.number = m
    <3>1. CASE m = k + 1
      BY <3>1, <1>4, <1>5
    <3>2. CASE m # k + 1
      <4>1. m \in 1 .. k
        BY <1>1, <3>2
      <4> QED
        BY <4>1, <1>4 DEF NumberInv, HistoryNumbered
    <3> QED
      BY <3>1, <3>2
  <2>3. ASSUME NEW r \in revisions', NEW s \in revisions', r.number = s.number PROVE r = s
    BY <1>2, <1>3, <1>4, <1>5, <2>3 DEF NumberInv, HistoryNumbered
  <2> QED
    BY <1>4, <2>1, <2>2, <2>3 DEF HistoryNumbered
<1>7. ASSUME NEW h \in Generations, gen'[h].pc = "commit"
      PROVE  gen'[h].number \in 1 .. (node'.current + 1)
  <2>1. h # g
    BY <1>7 DEF Extends
  <2>2. gen'[h] = gen[h]
    BY <2>1 DEF Extends
  <2>3. gen[h].number \in 1 .. (k + 1)
    BY <1>7, <2>2 DEF NumberInv
  <2> QED
    BY <1>1, <1>4, <2>2, <2>3
<1>8. node'.status # "ABSENT"
  BY DEF Extends
<1> QED
  BY <1>6, <1>7, <1>8 DEF NumberInv

LEMMA NextNumber == TypeOK /\ NumberInv /\ [Next]_vars => NumberInv'
<1> SUFFICES ASSUME TypeOK, NumberInv, [Next]_vars PROVE NumberInv'
  OBVIOUS
<1> USE NodeWorkflowAssumption
<1>0. node.current \in Nat
  BY DEF TypeOK, NodeRecord
<1>1. ASSUME NEW status \in Statuses \cup {"DRAFT"}, NEW data \in Written[turns], CreateNode(status, data)
      PROVE  NumberInv'
  <2>1. node.current = 0 /\ status # "ABSENT"
    BY <1>1 DEF CreateNode, NumberInv, NodeStatus
  <2>2. node'.current = 1 /\ node'.status = status /\ gen' = gen
    BY <1>1 DEF CreateNode
  <2>3. HistoryNumbered'
    BY <1>1, <2>2 DEF CreateNode, HistoryNumbered
  <2>4. \A g \in Generations : gen'[g].pc = "commit" => gen'[g].number \in 1 .. (node'.current + 1)
    BY <2>1, <2>2 DEF NumberInv
  <2> QED
    BY <2>1, <2>2, <2>3, <2>4 DEF NumberInv
<1>2. ASSUME NEW status \in Statuses \cup {"DRAFT"}, NEW data \in Written[turns], CreateBareNode(status, data)
      PROVE  NumberInv'
  <2>1. status # "ABSENT"
    BY DEF NodeStatus
  <2>2. node'.current = 0 /\ node.current = 0 /\ node'.status = status
          /\ gen' = gen /\ revisions' = revisions
    BY <1>2 DEF CreateBareNode, NumberInv
  <2> QED
    BY <2>1, <2>2 DEF NumberInv, HistoryNumbered
<1>3. ASSUME node'.current = node.current, node'.status = "ABSENT" => node.status = "ABSENT",
             revisions' = revisions,
             \A g \in Generations : gen'[g].pc = "commit" =>
                gen'[g].number \in 1 .. (node.current + 1)
      PROVE  NumberInv'
  BY <1>3 DEF NumberInv, HistoryNumbered
<1>4. CASE Remove
  <2>1. node'.current = node.current /\ node'.status = "GONE"
    BY <1>4 DEF Remove, TypeOK, NodeRecord
  <2> QED
    BY <1>3, <1>4, <2>1 DEF Remove, NumberInv
<1>5. ASSUME NEW v \in Views, Load(v) \/ Close(v) PROVE NumberInv'
  BY <1>3, <1>5 DEF Load, Close, NumberInv
<1>6. ASSUME NEW v \in Views, NEW data \in Written[turns], Save(v, data) PROVE NumberInv'
  <2>1. node'.current = node.current /\ node'.status = node.status
    BY <1>6 DEF Save, TypeOK, NodeRecord
  <2> QED
    BY <1>3, <1>6, <2>1 DEF Save, NumberInv
<1>7. ASSUME NEW status \in Statuses, SetStatus(status) PROVE NumberInv'
  <2>1. node'.current = node.current /\ node'.status = status /\ status # "ABSENT"
    BY <1>7 DEF SetStatus, TypeOK, NodeRecord, NodeStatus
  <2> QED
    BY <1>3, <1>7, <2>1 DEF SetStatus, NumberInv
<1>8. CASE NewModel
  BY <1>3, <1>8 DEF NewModel, NumberInv
<1>9. ASSUME NEW g \in Generations, ReadNode(g) \/ ReadRequirements(g) \/ Retrieve(g)
      PROVE  NumberInv'
  <2>1. gen'[g].pc # "commit" /\ \A h \in Generations \ {g} : gen'[h] = gen[h]
    BY <1>9 DEF ReadNode, ReadRequirements, Retrieve, UnusedGen, TypeOK, GenRecord
  <2>2. \A h \in Generations : gen'[h].pc = "commit" => gen'[h].number \in 1 .. (node.current + 1)
    BY <2>1 DEF NumberInv
  <2> QED
    BY <1>3, <1>9, <2>2 DEF ReadNode, ReadRequirements, Retrieve
<1>10. ASSUME NEW g \in Generations, ReadLast(g) PROVE NumberInv'
  <2>1. PICK n \in {0} \cup {r.number : r \in revisions} :
          gen' = [gen EXCEPT ![g].pc = "commit", ![g].number = n + 1]
    BY <1>10 DEF ReadLast
  <2>2. n \in 0 .. node.current
    BY <1>0, <2>1 DEF NumberInv, HistoryNumbered
  <2>3. gen'[g].number = n + 1 /\ \A h \in Generations \ {g} : gen'[h] = gen[h]
    BY <2>1 DEF TypeOK, GenRecord
  <2>4. \A h \in Generations : gen'[h].pc = "commit" => gen'[h].number \in 1 .. (node.current + 1)
    BY <1>0, <2>2, <2>3 DEF NumberInv
  <2> QED
    BY <1>3, <1>10, <2>4 DEF ReadLast
<1>11. ASSUME NEW g \in Generations, Commit(g) PROVE NumberInv'
  BY <1>11, CommitExtends, ExtendsNumber
<1>12. ASSUME NEW g \in Generations, GenerateFails(g) PROVE NumberInv'
  <2>1. gen'[g].pc = "failed" /\ \A h \in Generations \ {g} : gen'[h] = gen[h]
    BY <1>12, ReturnTyped DEF GenerateFails, GenPc
  <2>2. \A h \in Generations : gen'[h].pc = "commit" => gen'[h].number \in 1 .. (node.current + 1)
    BY <2>1 DEF NumberInv
  <2> QED
    BY <1>3, <1>12, <2>2 DEF GenerateFails
<1>13. CASE UNCHANGED vars
  BY <1>3, <1>13 DEF vars, NumberInv
<1> QED
  BY <1>1, <1>2, <1>4, <1>5, <1>6, <1>7, <1>8, <1>9, <1>10, <1>11, <1>12, <1>13
     DEF Next, Client, Generate

\* However generations overlap, fail and lose the race for a number, a node's revisions are
\* numbered from 1 without gap or repeat and the node points at the last one.
THEOREM HistoryInOrder == Spec => []HistoryNumbered
<1>1. NumberInv => HistoryNumbered
  BY DEF NumberInv
<1> QED
  BY <1>1, TypeCorrect, InitNumber, NextNumber, PTL DEF Spec

----------------------------------------------------------------------------
(* A generation and its revision *)

\* Steps that neither end a generation well nor write a revision keep the correspondence.
LEMMA SameHistory ==
    ASSUME DoneHasRevision, revisions' = revisions,
           \A h \in Generations : gen'[h].pc = "done" <=> gen[h].pc = "done"
    PROVE  DoneHasRevision'
BY DEF DoneHasRevision

\* A commit gives its own generation its revision, and no other one.
LEMMA ExtendsOwn ==
    ASSUME TypeOK, DoneHasRevision, NEW g \in Generations, Extends(g)
    PROVE  DoneHasRevision'
<1>1. Revision(g).by = {g}
  BY DEF Revision
<1>2. Revision(g) \in revisions' /\ revisions' = revisions \cup {Revision(g)}
  BY DEF Extends
<1>3. ASSUME NEW h \in Generations
      PROVE  gen'[h].pc = "done" <=> \E r \in revisions' : r.by = {h}
  <2>1. CASE h = g
    BY <1>1, <1>2, <2>1 DEF Extends
  <2>2. CASE h # g
    <3>1. Revision(g).by # {h}
      BY <1>1, <2>2
    <3>2. gen'[h] = gen[h]
      BY <2>2 DEF Extends
    <3> QED
      BY <1>2, <3>1, <3>2 DEF DoneHasRevision
  <2> QED
    BY <2>1, <2>2
<1> QED
  BY <1>3 DEF DoneHasRevision

LEMMA NextOwn == TypeOK /\ NumberInv /\ DoneHasRevision /\ [Next]_vars => DoneHasRevision'
<1> SUFFICES ASSUME TypeOK, NumberInv, DoneHasRevision, [Next]_vars PROVE DoneHasRevision'
  OBVIOUS
<1>1. ASSUME NEW status, NEW data, CreateNode(status, data) PROVE DoneHasRevision'
  <2>1. revisions = {} /\ gen' = gen
    BY <1>1 DEF CreateNode, NumberInv
  <2>2. \A r \in revisions' : r.by = {}
    BY <1>1 DEF CreateNode
  <2> QED
    BY <2>1, <2>2 DEF DoneHasRevision
<1>2. ASSUME NEW status, NEW data, CreateBareNode(status, data) PROVE DoneHasRevision'
  BY <1>2, SameHistory DEF CreateBareNode
<1>3. CASE Remove
  BY <1>3, SameHistory DEF Remove
<1>4. ASSUME NEW v, NEW data, Load(v) \/ Save(v, data) \/ Close(v) PROVE DoneHasRevision'
  BY <1>4, SameHistory DEF Load, Save, Close
<1>5. ASSUME NEW status, SetStatus(status) PROVE DoneHasRevision'
  BY <1>5, SameHistory DEF SetStatus
<1>6. CASE NewModel
  BY <1>6, SameHistory DEF NewModel
<1>7. ASSUME NEW g \in Generations,
             ReadNode(g) \/ ReadRequirements(g) \/ Retrieve(g) \/ ReadLast(g)
      PROVE  DoneHasRevision'
  <2>1. gen[g].pc # "done" /\ gen'[g].pc # "done" /\ \A h \in Generations \ {g} : gen'[h] = gen[h]
    BY <1>7 DEF ReadNode, ReadRequirements, Retrieve, ReadLast, UnusedGen, TypeOK, GenRecord
  <2>2. \A h \in Generations : gen'[h].pc = "done" <=> gen[h].pc = "done"
    BY <2>1
  <2> QED
    BY <1>7, <2>2, SameHistory DEF ReadNode, ReadRequirements, Retrieve, ReadLast
<1>8. ASSUME NEW g \in Generations, Commit(g) PROVE DoneHasRevision'
  BY <1>8, CommitExtends, ExtendsOwn
<1>9. ASSUME NEW g \in Generations, GenerateFails(g) PROVE DoneHasRevision'
  <2>1. gen'[g].pc = "failed" /\ \A h \in Generations \ {g} : gen'[h] = gen[h]
    BY <1>9, ReturnTyped DEF GenerateFails, GenPc
  <2>2. gen[g].pc # "done"
    BY <1>9 DEF GenerateFails, Generating, GenOpen
  <2>3. \A h \in Generations : gen'[h].pc = "done" <=> gen[h].pc = "done"
    BY <2>1, <2>2
  <2> QED
    BY <1>9, <2>3, SameHistory DEF GenerateFails
<1>10. CASE UNCHANGED vars
  BY <1>10, SameHistory DEF vars
<1> QED
  BY <1>1, <1>2, <1>3, <1>4, <1>5, <1>6, <1>7, <1>8, <1>9, <1>10 DEF Next, Client, Generate

\* A generation answers exactly when its revision is there, wherever others stop or fail.
THEOREM GenerationAllOrNothing == Spec => []DoneHasRevision
<1>1. Init => DoneHasRevision
  BY DEF Init, DoneHasRevision, UnusedGen
<1> QED
  BY <1>1, TypeCorrect, InitNumber, NextNumber, NextOwn, PTL DEF Spec

----------------------------------------------------------------------------
(* Taking turns *)

Past(g) == gen[g].pc \in {"retrieve", "last", "commit"}

\* A generation that has the node to itself still sees what the node holds; its result comes
\* from what it saw; and it has read a model no older than any revision's.
Alone(g) ==
    /\ Exists /\ gen[g].seen = node.data
    /\ \A h \in Generations \ {g} : ~Generating(h)
    /\ \A v \in Views : view[v] = NoData

TurnInv ==
    /\ turns => \A g \in Generations : Generating(g) => Alone(g)
    /\ \A g \in Generations : gen[g].pc \in {"last", "commit"} =>
        gen[g].result \in Payloads(gen[g].seen)
    /\ \A r \in revisions : r.basis <= model
    /\ \A g \in Generations : Past(g) => gen[g].basis <= model
    /\ turns => \A g \in Generations : Past(g) => \A r \in revisions : r.basis <= gen[g].basis
    /\ TurnsBackUp
    /\ TurnsBasis

LEMMA InitTurn == Init => TurnInv
<1> SUFFICES ASSUME Init PROVE TurnInv
  OBVIOUS
<1>1. \A g \in Generations : gen[g].pc = "unused"
  BY DEF Init, UnusedGen
<1> QED
  BY <1>1 DEF Init, TurnInv, Past, Generating, GenOpen, TurnsBackUp, ReplacedIsBackedUp, TurnsBasis

\* Steps that leave generations and history alone keep the invariant, if they leave what a
\* lone generation relies on alone too.
LEMMA TurnKept ==
    ASSUME TypeOK, TurnInv, gen' = gen, revisions' = revisions, turns' = turns,
           model' \in Nat, model <= model',
           \A g \in Generations : turns /\ Generating(g) /\ Alone(g) => Alone(g)'
    PROVE  TurnInv'
<1>1. \A g \in Generations : Generating(g)' <=> Generating(g)
  BY DEF Generating
<1>2. turns' => \A g \in Generations : Generating(g)' => Alone(g)'
  BY <1>1 DEF TurnInv
<1>3. model \in Nat /\ \A r \in revisions : r.basis \in Nat
  BY DEF TypeOK, RevisionRecord
<1>4. \A g \in Generations : gen[g].basis \in Nat
  BY DEF TypeOK, GenRecord
<1>5. \A r \in revisions' : r.basis <= model'
  BY <1>3 DEF TurnInv
<1>6. \A g \in Generations : Past(g)' => gen'[g].basis <= model'
  BY <1>3, <1>4 DEF TurnInv, Past
<1> QED
  BY <1>2, <1>5, <1>6 DEF TurnInv, Past, TurnsBackUp, ReplacedIsBackedUp, TurnsBasis

\* A commit of a generation that is alone.
LEMMA ExtendsTurn ==
    ASSUME TypeOK, NumberInv, TurnInv, NEW g \in Generations, Commit(g)
    PROVE  TurnInv'
<1> DEFINE new == Revision(g)
<1>1. Extends(g) /\ turns' = turns /\ model' = model /\ view' = view
  BY CommitExtends DEF Commit
<1>2. gen[g].pc = "commit" /\ gen'[g].pc = "done"
  BY <1>1 DEF Extends
<1>3. \A h \in Generations \ {g} : gen'[h] = gen[h]
  BY <1>1 DEF Extends
<1>4. revisions' = revisions \cup {new}
  BY <1>1 DEF Extends
<1>5. new.by = {g} /\ new.basis = gen[g].basis /\ new.number = gen[g].number
        /\ new.previous = gen[g].seen /\ new.replaced = node.data
  BY DEF Revision
<1> HIDE DEF new
<1>6. gen[g].basis <= model
  BY <1>2 DEF TurnInv, Past
<1>7. turns => \A h \in Generations : Generating(h)' => Alone(h)'
  <2> SUFFICES ASSUME turns, NEW h \in Generations, Generating(h)' PROVE FALSE
    OBVIOUS
  <2>1. Alone(g)
    BY <1>2 DEF TurnInv, Generating, GenOpen
  <2>2. h # g
    BY <1>2 DEF Generating, GenOpen
  <2>3. Generating(h)
    BY <1>3, <2>2 DEF Generating
  <2> QED
    BY <2>1, <2>2, <2>3 DEF Alone
<1>8. \A h \in Generations : gen'[h].pc \in {"last", "commit"} =>
        gen'[h].result \in Payloads(gen'[h].seen)
  BY <1>2, <1>3 DEF TurnInv
<1>9. \A r \in revisions' : r.basis <= model'
  BY <1>1, <1>4, <1>5, <1>6 DEF TurnInv
<1>10. \A h \in Generations : Past(h)' => gen'[h].basis <= model'
  BY <1>1, <1>2, <1>3 DEF TurnInv, Past
<1>11. turns => \A h \in Generations : ~Past(h)'
  BY <1>2, <1>7, <1>3 DEF Past, Alone, TurnInv, Generating, GenOpen
<1>12. turns => ReplacedIsBackedUp'
  <2> SUFFICES ASSUME turns PROVE ReplacedIsBackedUp'
    OBVIOUS
  <2>1. gen[g].seen = node.data
    BY <1>2 DEF TurnInv, Alone, Generating, GenOpen
  <2> QED
    BY <1>4, <1>5, <2>1 DEF TurnInv, TurnsBackUp, ReplacedIsBackedUp
<1>13. turns => \A r, s \in revisions' : r.number < s.number => r.basis <= s.basis
  <2> SUFFICES ASSUME turns, NEW r \in revisions', NEW s \in revisions', r.number < s.number
               PROVE  r.basis <= s.basis
    OBVIOUS
  <2>1. \A q \in revisions : q.number \in 1 .. node.current /\ q.basis <= gen[g].basis
    BY <1>2 DEF TurnInv, Past, NumberInv, HistoryNumbered
  <2>2. gen[g].number = node.current + 1
    BY <1>1 DEF NumberInv, HistoryNumbered, Extends, TypeOK, GenRecord, NodeRecord
  <2>3. node.current \in Nat /\ gen[g].basis \in Nat
    BY DEF TypeOK, NodeRecord, GenRecord
  <2>4. CASE s = new
    BY <1>4, <1>5, <2>1, <2>3, <2>4
  <2>5. CASE s # new
    <3>1. s \in revisions
      BY <1>4, <2>5
    <3>2. r # new
      BY <1>5, <2>1, <2>2, <2>3, <3>1
    <3> QED
      BY <1>4, <3>1, <3>2 DEF TurnInv, TurnsBasis
  <2> QED
    BY <2>4, <2>5
<1> QED
  BY <1>1, <1>7, <1>8, <1>9, <1>10, <1>11, <1>12, <1>13 DEF TurnInv, TurnsBackUp, TurnsBasis

\* A step of a generation inside generateNode that touches neither node nor history.
LEMMA StepTurn ==
    ASSUME TypeOK, TurnInv, NEW g \in Generations, Generating(g),
           node' = node, revisions' = revisions, model' = model, view' = view, turns' = turns,
           \A h \in Generations \ {g} : gen'[h] = gen[h],
           Generating(g)' => gen'[g].seen = gen[g].seen,
           gen'[g].pc \in {"last", "commit"} => gen'[g].result \in Payloads(gen'[g].seen),
           Past(g)' => \/ gen'[g].basis = model
                       \/ Past(g) /\ gen'[g].basis = gen[g].basis
    PROVE  TurnInv'
<1>1. turns => \A h \in Generations : Generating(h)' => Alone(h)'
  <2> SUFFICES ASSUME turns, NEW h \in Generations, Generating(h)' PROVE Alone(h)'
    OBVIOUS
  <2>1. Alone(g)
    BY DEF TurnInv
  <2>2. h = g
    BY <2>1 DEF Alone, Generating
  <2> QED
    BY <2>1, <2>2 DEF Alone, Generating, Exists
<1>2. model \in Nat /\ \A r \in revisions : r.basis <= model
  BY DEF TypeOK, TurnInv
<1>3. \A h \in Generations : Past(h)' => gen'[h].basis <= model'
  BY <1>2 DEF TurnInv, Past
<1>4. turns => \A h \in Generations : Past(h)' => \A r \in revisions : r.basis <= gen'[h].basis
  BY <1>2 DEF TurnInv, Past
<1>5. \A h \in Generations : gen'[h].pc \in {"last", "commit"} =>
        gen'[h].result \in Payloads(gen'[h].seen)
  BY DEF TurnInv
<1> QED
  BY <1>1, <1>2, <1>3, <1>4, <1>5
     DEF TurnInv, Past, TurnsBackUp, ReplacedIsBackedUp, TurnsBasis

LEMMA NextTurn == TypeOK /\ NumberInv /\ TurnInv /\ [Next]_vars => TurnInv'
<1> SUFFICES ASSUME TypeOK, NumberInv, TurnInv, [Next]_vars PROVE TurnInv'
  OBVIOUS
<1>0. model \in Nat
  BY DEF TypeOK
<1>1. ASSUME NEW status, NEW data, CreateNode(status, data) PROVE TurnInv'
  <2> DEFINE first == [number |-> 1, by |-> {}, basis |-> 0,
                       previous |-> NoData, replaced |-> Blank]
  <2>1. revisions' = {first} /\ gen' = gen /\ model' = model /\ turns' = turns /\ view' = view
    BY <1>1 DEF CreateNode
  <2>2. first.by = {} /\ first.basis = 0 /\ first.number = 1
    OBVIOUS
  <2> HIDE DEF first
  <2>3. ~Exists
    BY <1>1 DEF CreateNode, Exists, NodeStatus
  <2>4. turns => \A g \in Generations : ~Generating(g) /\ ~Generating(g)' /\ ~Past(g)'
    BY <2>1, <2>3 DEF TurnInv, Alone, Generating, GenOpen, Past
  <2>5. \A r \in revisions' : r.basis <= model'
    BY <1>0, <2>1, <2>2
  <2>6. ReplacedIsBackedUp'
    BY <2>1, <2>2 DEF ReplacedIsBackedUp
  <2>7. TurnsBasis'
    BY <2>1, <2>2 DEF TurnsBasis
  <2>8. \A g \in Generations : /\ Past(g)' <=> Past(g)
                               /\ gen'[g].pc \in {"last", "commit"} =>
                                    gen'[g].result \in Payloads(gen'[g].seen)
    BY <2>1 DEF Past, TurnInv
  <2> QED
    BY <2>1, <2>4, <2>5, <2>6, <2>7, <2>8 DEF TurnInv, TurnsBackUp
<1>2. ASSUME NEW status, NEW data, CreateBareNode(status, data) PROVE TurnInv'
  <2>1. ~Exists
    BY <1>2 DEF CreateBareNode, Exists, NodeStatus
  <2>2. \A g \in Generations : turns /\ Generating(g) /\ Alone(g) => Alone(g)'
    BY <2>1 DEF Alone
  <2> QED
    BY <1>0, <1>2, <2>2, TurnKept DEF CreateBareNode
<1>3. CASE Remove
  <2>1. \A g \in Generations : turns /\ Generating(g) /\ Alone(g) => Alone(g)'
    BY <1>3 DEF Remove, Turn
  <2> QED
    BY <1>0, <1>3, <2>1, TurnKept DEF Remove
<1>4. ASSUME NEW v \in Views, Load(v) PROVE TurnInv'
  <2>1. \A g \in Generations : turns /\ Generating(g) /\ Alone(g) => Alone(g)'
    BY <1>4 DEF Load, Turn
  <2> QED
    BY <1>0, <1>4, <2>1, TurnKept DEF Load
<1>5. ASSUME NEW v \in Views, NEW data, Save(v, data) PROVE TurnInv'
  <2>1. \A g \in Generations : turns /\ Generating(g) /\ Alone(g) => Alone(g)'
    BY <1>5 DEF Save, Alone
  <2> QED
    BY <1>0, <1>5, <2>1, TurnKept DEF Save
<1>6. ASSUME NEW v \in Views, Close(v) PROVE TurnInv'
  <2>1. \A g \in Generations : turns /\ Generating(g) /\ Alone(g) => Alone(g)'
    BY <1>6 DEF Close, Alone
  <2> QED
    BY <1>0, <1>6, <2>1, TurnKept DEF Close
<1>7. ASSUME NEW status \in Statuses, SetStatus(status) PROVE TurnInv'
  <2>1. node'.data = node.data /\ Exists'
    BY <1>7, NodeWorkflowAssumption DEF SetStatus, TypeOK, NodeRecord, Exists
  <2>2. \A g \in Generations : turns /\ Generating(g) /\ Alone(g) => Alone(g)'
    BY <1>7, <2>1 DEF SetStatus, Alone, Generating
  <2> QED
    BY <1>0, <1>7, <2>2, TurnKept DEF SetStatus
<1>8. CASE NewModel
  <2>1. \A g \in Generations : turns /\ Generating(g) /\ Alone(g) => Alone(g)'
    BY <1>8 DEF NewModel, Alone, Generating, Exists
  <2>2. model' \in Nat /\ model <= model'
    BY <1>0, <1>8 DEF NewModel
  <2> QED
    BY <1>8, <2>1, <2>2, TurnKept DEF NewModel
<1>9. ASSUME NEW g \in Generations, ReadNode(g) PROVE TurnInv'
  <2> DEFINE c == [UnusedGen EXCEPT !.pc = "requirements", !.seen = node.data]
  <2>1. gen' = [gen EXCEPT ![g] = c]
    BY <1>9 DEF ReadNode
  <2>2. c.pc = "requirements" /\ c.seen = node.data
    BY DEF UnusedGen
  <2> HIDE DEF c
  <2>3. gen'[g] = c /\ \A h \in Generations \ {g} : gen'[h] = gen[h]
    BY <2>1 DEF TypeOK
  <2>4. turns => \A h \in Generations : Generating(h)' => Alone(h)'
    BY <1>9, <2>2, <2>3 DEF ReadNode, Turn, Alone, Generating, Exists
  <2>5. \A h \in Generations : /\ Past(h)' => Past(h) /\ gen'[h] = gen[h]
                               /\ gen'[h].pc \in {"last", "commit"} => gen'[h] = gen[h]
    BY <2>2, <2>3 DEF Past
  <2> QED
    BY <1>9, <2>4, <2>5 DEF ReadNode, TurnInv, TurnsBackUp, ReplacedIsBackedUp, TurnsBasis
<1>10. ASSUME NEW g \in Generations, ReadRequirements(g) PROVE TurnInv'
  <2>1. gen'[g].pc = "retrieve" /\ gen'[g].basis = model /\ gen'[g].seen = gen[g].seen
          /\ \A h \in Generations \ {g} : gen'[h] = gen[h]
    BY <1>10 DEF ReadRequirements, TypeOK, GenRecord
  <2> QED
    BY <1>10, <2>1, StepTurn DEF ReadRequirements, Generating, GenOpen
<1>11. ASSUME NEW g \in Generations, Retrieve(g) PROVE TurnInv'
  <2>1. PICK payload \in Payloads(gen[g].seen) :
          gen' = [gen EXCEPT ![g].pc = "last", ![g].result = payload]
    BY <1>11 DEF Retrieve
  <2>2. gen'[g].pc = "last" /\ gen'[g].result = payload /\ gen'[g].seen = gen[g].seen
          /\ gen'[g].basis = gen[g].basis /\ \A h \in Generations \ {g} : gen'[h] = gen[h]
    BY <2>1 DEF TypeOK, GenRecord
  <2> QED
    BY <1>11, <2>2, StepTurn DEF Retrieve, Generating, GenOpen, Past
<1>12. ASSUME NEW g \in Generations, ReadLast(g) PROVE TurnInv'
  <2>1. PICK n \in {0} \cup {r.number : r \in revisions} :
          gen' = [gen EXCEPT ![g].pc = "commit", ![g].number = n + 1]
    BY <1>12 DEF ReadLast
  <2>2. gen'[g].pc = "commit" /\ gen'[g].result = gen[g].result /\ gen'[g].seen = gen[g].seen
          /\ gen'[g].basis = gen[g].basis /\ \A h \in Generations \ {g} : gen'[h] = gen[h]
    BY <2>1 DEF TypeOK, GenRecord
  <2>3. gen[g].result \in Payloads(gen[g].seen)
    BY <1>12 DEF ReadLast, TurnInv
  <2> QED
    BY <1>12, <2>2, <2>3, StepTurn DEF ReadLast, Generating, GenOpen, Past
<1>13. ASSUME NEW g \in Generations, Commit(g) PROVE TurnInv'
  BY <1>13, ExtendsTurn
<1>14. ASSUME NEW g \in Generations, GenerateFails(g) PROVE TurnInv'
  <2>1. gen'[g].pc = "failed" /\ \A h \in Generations \ {g} : gen'[h] = gen[h]
    BY <1>14, ReturnTyped DEF GenerateFails, GenPc
  <2> QED
    BY <1>14, <2>1, StepTurn DEF GenerateFails, Generating, GenOpen, Past
<1>15. CASE UNCHANGED vars
  <2>1. \A g \in Generations : turns /\ Generating(g) /\ Alone(g) => Alone(g)'
    BY <1>15 DEF vars, Alone, Generating, Exists
  <2> QED
    BY <1>0, <1>15, <2>1, TurnKept DEF vars
<1> QED
  BY <1>1, <1>2, <1>3, <1>4, <1>5, <1>6, <1>7, <1>8, <1>9, <1>10, <1>11, <1>12, <1>13, <1>14, <1>15
     DEF Next, Client, Generate

\* Where clients and generations take turns, the previous data a generation writes into its
\* revision are what the node held: nothing of the history is lost.
THEOREM TurnsHistoryComplete == Spec => []TurnsBackUp
<1>1. TurnInv => TurnsBackUp
  BY DEF TurnInv
<1> QED
  BY <1>1, TypeCorrect, InitNumber, NextNumber, InitTurn, NextTurn, PTL DEF Spec

\* Where they take turns, the requirements models behind a node's revisions never go back.
THEOREM TurnsModelsForward == Spec => []TurnsBasis
<1>1. TurnInv => TurnsBasis
  BY DEF TurnInv
<1> QED
  BY <1>1, TypeCorrect, InitNumber, NextNumber, InitTurn, NextTurn, PTL DEF Spec

\* The action behind TurnsKeepFilled: a step that adds a revision keeps the filled fields.
LEMMA StepKeepsFilled ==
    ASSUME TypeOK, NumberInv, TurnInv, [Next]_vars, turns, revisions' # revisions,
           Exists, NEW f \in Fields, node.data.fields[f] \in Truthy, ~Shadowed(node.data, f)
    PROVE  node'.data.fields[f] = node.data.fields[f]
<1>1. ASSUME NEW status, NEW data, CreateNode(status, data) PROVE FALSE
  BY <1>1 DEF CreateNode, Exists, NodeStatus
<1>2. ASSUME NEW g \in Generations, Commit(g) PROVE node'.data.fields[f] = node.data.fields[f]
  <2>1. gen[g].seen = node.data /\ gen[g].result \in Payloads(gen[g].seen)
    BY <1>2 DEF Commit, TurnInv, Alone, Generating, GenOpen
  <2>2. gen[g].result.fields[f] \in Filled(node.data.fields[f])
    <3>1. node.data.fields[f] # NoField
      BY NodeWorkflowAssumption DEF Truthy
    <3>2. Existing(node.data, f) = node.data.fields[f]
      BY <3>1, ExistingUnshadowed
    <3>3. gen[g].result.fields[f] \in Filled(Existing(gen[g].seen, f))
      BY <2>1, PayloadFilled
    <3> QED
      BY <2>1, <3>2, <3>3
  <2>3. Filled(node.data.fields[f]) = {node.data.fields[f]}
    BY NodeWorkflowAssumption DEF Filled, Truthy
  <2>4. node'.data = gen[g].result
    BY <1>2 DEF Commit
  <2> QED
    BY <2>2, <2>3, <2>4
<1>3. \/ \E status \in Statuses \cup {"DRAFT"}, data \in Written[turns] : CreateNode(status, data)
      \/ \E g \in Generations : Commit(g)
  BY DEF Next, vars, CreateBareNode, Remove, Client, Load, Save, Close, SetStatus, NewModel,
         Generate, ReadNode, ReadRequirements, Retrieve, ReadLast, GenerateFails
<1> QED
  BY <1>1, <1>2, <1>3

\* Where they take turns, a generation never empties or changes a field that has a value,
\* unless an earlier section has a field with its id.
THEOREM TurnsFilledStays == Spec => TurnsKeepFilled
<1>1. TypeOK /\ NumberInv /\ TurnInv /\ [Next]_vars =>
        [turns /\ revisions' # revisions =>
            \A f \in Fields : /\ node.data.fields[f] \in Truthy /\ Exists
                               /\ ~Shadowed(node.data, f)
                                  => node'.data.fields[f] = node.data.fields[f]]_vars
  BY StepKeepsFilled
<1> QED
  BY <1>1, TypeCorrect, InitNumber, NextNumber, InitTurn, NextTurn, PTL DEF Spec, TurnsKeepFilled

=============================================================================
