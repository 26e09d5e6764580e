------------------------ MODULE ProjectFacts_proofs ------------------------
(***************************************************************************)
(* Proofs about ProjectFacts, for any facts, values, calls and faults.     *)
(***************************************************************************)
EXTENDS ProjectFacts, TLAPS

(***************************************************************************)
(* Type correctness.                                                       *)
(***************************************************************************)
LEMMA NoValueAlike == Null # Undefined /\ Null \in Absent /\ Undefined \in Absent
  BY DEF Null, Undefined, Absent

LEMMA ValuesPresent ==
  ASSUME ProjectFactsAssumption
  PROVE  AnyValue \cap Absent = {}
  BY DEF ProjectFactsAssumption, AnyValue

LEMMA UnusedTypes ==
  /\ UnusedCall \in CallRecord /\ UnusedCall.pc = "unused" /\ UnusedCall.alone = FALSE
  /\ UnusedCall.dto.facts = Nothing /\ UnusedCall.dto.fields = NoColumns
  <1> DEFINE dto == [fields |-> NoColumns, facts |-> Nothing]
  <1>1. NoColumns \in [Columns -> Recorded] /\ Nothing \in [Keys -> Recorded]
    BY NoValueAlike DEF Nothing, NoColumns, Recorded
  <1>2. dto \in Dto /\ dto.facts = Nothing /\ dto.fields = NoColumns
    BY <1>1, NoValueAlike DEF Nothing, NoColumns, Dto
  <1> HIDE DEF dto
  <1>3. UnusedCall = [pc |-> "unused", dto |-> dto, read |-> NoColumns, alone |-> FALSE]
    BY DEF UnusedCall, dto
  <1> QED BY <1>1, <1>2, <1>3 DEF CallRecord, CallPc

\* What a dto is made of.
LEMMA DtoParts ==
  ASSUME NEW dto \in Dto
  PROVE  /\ dto.fields \in [Columns -> Recorded] /\ dto.facts \in [Keys -> Recorded]
         /\ ProjectFactsAssumption => \A k \in Columns : dto.fields[k] # Undefined => dto.fields[k] \notin Absent
         /\ \A k \in Keys : Says(dto, k) \subseteq Recorded
  <1>1. dto.fields \in [Columns -> Recorded] /\ dto.facts \in [Keys -> Recorded]
        /\ \A k \in Columns : dto.fields[k] \in Values[k] \cup {Undefined}
    BY DEF Dto
  <1>2. \A k \in Columns : k \in Keys
    BY DEF Keys
  <1>3. \A k \in Keys : Says(dto, k) \subseteq Recorded
    BY <1>1, <1>2 DEF Says
  <1>4. ProjectFactsAssumption => \A k \in Columns : dto.fields[k] # Undefined => dto.fields[k] \notin Absent
    BY <1>1, <1>2 DEF ProjectFactsAssumption
  <1> QED BY <1>1, <1>3, <1>4

LEMMA EndedType ==
  ASSUME FactsTypeOK, NEW u \in Calls, NEW pc \in CallPc
  PROVE  /\ Ended(u, pc) \in CallRecord
         /\ Ended(u, pc).pc = pc /\ Ended(u, pc).alone = call[u].alone
  BY UnusedTypes DEF FactsTypeOK, Ended, CallRecord

LEMMA BuiltTypes ==
  ASSUME FactsTypeOK, NEW u \in Calls
  PROVE  /\ NewColumn(u) \in [Columns -> Recorded]
         /\ BuildFacts(u) \in [Keys -> Recorded]
         /\ \A k \in Columns : call[u].dto.facts[k] = Undefined => NewColumn(u)[k] = BuildFacts(u)[k]
         /\ \A k \in Columns : call[u].dto.fields[k] # Undefined => NewColumn(u)[k] = call[u].dto.fields[k]
         /\ \A k \in Keys : call[u].dto.facts[k] # Undefined => BuildFacts(u)[k] = call[u].dto.facts[k]
  <1>1. call[u].dto \in Dto /\ call[u].read \in [Columns -> Recorded]
    BY DEF FactsTypeOK, CallRecord
  <1>2. call[u].dto.fields \in [Columns -> Recorded] /\ call[u].dto.facts \in [Keys -> Recorded]
    BY <1>1, DtoParts
  <1>3. \A k \in Columns : k \in Keys
    BY DEF Keys
  <1>4. NewColumn(u) \in [Columns -> Recorded]
    BY <1>1, <1>2, NoValueAlike DEF NewColumn, OrElse, Recorded
  <1>5. BuildFacts(u) \in [Keys -> Recorded]
    BY <1>2, <1>4, NoValueAlike DEF BuildFacts, OrElse, Recorded
  <1>6. \A k \in Columns : call[u].dto.fields[k] # Undefined => NewColumn(u)[k] = call[u].dto.fields[k]
    BY DEF NewColumn, OrElse
  <1> QED BY <1>3, <1>4, <1>5, <1>6 DEF BuildFacts, OrElse

LEMMA EntriesType ==
  ASSUME NEW u \in Calls, NEW built \in [Keys -> Recorded]
  PROVE  /\ Entries(u, built) \subseteq Upserts
         /\ \A p \in Entries(u, built) : p.by = u /\ p.value = built[p.key]
         /\ \A k \in Keys : built[k] \notin Absent =>
               \E p \in Entries(u, built) : p.key = k
  <1>1. ASSUME NEW p \in Entries(u, built)
        PROVE  p \in Upserts /\ p.by = u /\ p.value = built[p.key]
    <2>1. PICK k \in Keys : built[k] \notin Absent /\ p = [by |-> u, key |-> k, value |-> built[k]]
      BY DEF Entries
    <2>2. built[k] \in AnyValue
      BY <2>1 DEF Recorded
    <2> QED BY <2>1, <2>2 DEF Upserts
  <1>2. ASSUME NEW k \in Keys, built[k] \notin Absent
        PROVE  \E p \in Entries(u, built) : p.key = k
    <2> DEFINE p == [by |-> u, key |-> k, value |-> built[k]]
    <2>1. p \in Entries(u, built)
      BY <1>2 DEF Entries
    <2> QED BY <2>1
  <1> QED BY <1>1, <1>2

LEMMA InitType == ProjectFactsAssumption /\ FactsInit => FactsTypeOK
  <1> SUFFICES ASSUME ProjectFactsAssumption, FactsInit PROVE FactsTypeOK
    OBVIOUS
  <1>1. turns \in BOOLEAN
    BY TurnsAssumption DEF FactsInit
  <1>2. call \in [Calls -> CallRecord]
    BY UnusedTypes DEF FactsInit
  <1>3. /\ column \in [Columns -> Recorded] /\ facts \in [Keys -> Recorded]
        /\ row \in [Keys -> AnyValue \cup {Undefined}] /\ stated \in [Keys -> SUBSET Recorded]
    BY NoValueAlike DEF FactsInit, Nothing, NoColumns, Recorded
  <1> QED BY <1>1, <1>2, <1>3 DEF FactsInit, FactsTypeOK

LEMMA TypeStep == ProjectFactsAssumption /\ FactsTypeOK /\ [FactsNext]_factVars => FactsTypeOK'
  <1> SUFFICES ASSUME ProjectFactsAssumption, FactsTypeOK, [FactsNext]_factVars PROVE FactsTypeOK'
    OBVIOUS
  <1> USE DEF project, said
  <1>1. ASSUME NEW u \in Calls, NEW dto \in Dto, Begin(u, dto) PROVE FactsTypeOK'
    <2> DEFINE began(w) == IF w = u THEN [pc |-> "write", dto |-> dto, read |-> column, alone |-> Quiet]
                                    ELSE [call[w] EXCEPT !.alone = FALSE]
    <2>1. Quiet \in BOOLEAN
      BY DEF Quiet
    <2>2. \A w \in Calls : began(w) \in CallRecord
      BY <2>1 DEF FactsTypeOK, CallRecord, CallPc
    <2>3. call' = [w \in Calls |-> began(w)]
      BY <1>1 DEF Begin
    <2> HIDE DEF began
    <2>4. call' \in [Calls -> CallRecord]
      BY <2>2, <2>3
    <2>5. \A k \in Keys : Says(dto, k) \subseteq Recorded
      BY DtoParts
    <2>6. stated' \in [Keys -> SUBSET Recorded]
      BY <1>1, <2>5 DEF Begin, FactsTypeOK
    <2>7. overlaid' \subseteq Columns
      BY <1>1 DEF Begin, FactsTypeOK, Overlays
    <2> QED BY <1>1, <2>4, <2>6, <2>7 DEF Begin, FactsTypeOK
  <1>2. ASSUME NEW u \in Calls, Write(u) PROVE FactsTypeOK'
    <2>1. /\ NewColumn(u) \in [Columns -> Recorded] /\ BuildFacts(u) \in [Keys -> Recorded]
          /\ Entries(u, BuildFacts(u)) \subseteq Upserts
      BY BuiltTypes, EntriesType
    <2>2. call' \in [Calls -> CallRecord]
      BY <1>2 DEF Write, FactsTypeOK, CallRecord, CallPc
    <2> QED BY <1>2, <2>1, <2>2 DEF Write, FactsTypeOK
  <1>3. ASSUME NEW p \in pending, UpsertRow(p) PROVE FactsTypeOK'
    BY <1>3 DEF UpsertRow, FactsTypeOK, Upserts
  <1>4. ASSUME NEW p \in pending, UpsertFails(p) PROVE FactsTypeOK'
    <2>1. p.by \in Calls
      BY DEF FactsTypeOK, Upserts
    <2>2. Ended(p.by, "failed") \in CallRecord
      BY <2>1, EndedType DEF CallPc
    <2>3. call' \in [Calls -> CallRecord]
      BY <1>4, <2>1, <2>2 DEF UpsertFails, FactsTypeOK
    <2> QED BY <1>4, <2>3 DEF UpsertFails, FactsTypeOK
  <1>5. ASSUME NEW u \in Calls, Answer(u) \/ WriteFails(u) \/ Kill(u) PROVE FactsTypeOK'
    <2>1. PICK pc \in {"done", "failed", "lost"} : call' = [call EXCEPT ![u] = Ended(u, pc)]
      BY <1>5 DEF Answer, WriteFails, Kill
    <2>2. Ended(u, pc) \in CallRecord
      BY EndedType DEF CallPc
    <2>3. call' \in [Calls -> CallRecord]
      BY <2>1, <2>2 DEF FactsTypeOK
    <2>4. \A k \in Keys : Says(call[u].dto, k) \subseteq Recorded
      BY DtoParts DEF FactsTypeOK, CallRecord
    <2>5. stated' \in [Keys -> SUBSET Recorded]
      BY <1>5, <2>4 DEF Answer, WriteFails, Kill, FactsTypeOK
    <2> QED BY <1>5, <2>3, <2>5 DEF Answer, WriteFails, Kill, FactsTypeOK
  <1>6. CASE UNCHANGED factVars
    BY <1>6 DEF factVars, FactsTypeOK
  <1> QED BY <1>1, <1>2, <1>3, <1>4, <1>5, <1>6
          DEF FactsNext, CreateProject, UpdateProject, ProjectFactsAssumption

\* Every reachable state of the project's facts, its calls and their upserts is well typed.
THEOREM TypeCorrect ==
  ASSUME ProjectFactsAssumption
  PROVE  FactsSpec => []FactsTypeOK
  <1> QED BY InitType, TypeStep, PTL DEF FactsSpec

(***************************************************************************)
(* SavingRepairs.  The last call, while it has had the project to itself,  *)
(* is the only one that is open and the only one with upserts on their     *)
(* way; each of them carries the fact as the project row has it, and each  *)
(* fact is in its row or on its way there.                                 *)
(***************************************************************************)
Alone(u) == latest = u /\ call[u].alone

AloneInv ==
    \A u \in Calls : Alone(u) /\ call[u].pc \in {"write", "sync", "done"} =>
        /\ \A w \in Calls : w # u => call[w].pc \notin CallOpen
        /\ \A p \in pending : p.by = u /\ p.value = facts[p.key]
        /\ call[u].pc \in {"write", "done"} => pending = {}
        /\ call[u].pc \in {"sync", "done"} =>
             \A k \in Keys : facts[k] \notin Absent =>
                 row[k] = facts[k] \/ \E p \in pending : p.key = k

LEMMA InitAlone == FactsInit => AloneInv
  BY UnusedTypes DEF FactsInit, AloneInv

\* A call that has ended is as alone as it was, and nothing else of the calls changes.
LEMMA EndedCalls ==
  ASSUME FactsTypeOK, NEW u \in Calls, NEW pc \in CallPc, call' = [call EXCEPT ![u] = Ended(u, pc)]
  PROVE  /\ call'[u].pc = pc /\ call'[u].alone = call[u].alone
         /\ \A w \in Calls : w # u => call'[w] = call[w]
  BY EndedType DEF FactsTypeOK

LEMMA AloneStep ==
  ProjectFactsAssumption /\ FactsTypeOK /\ AloneInv /\ [FactsNext]_factVars => AloneInv'
  <1> SUFFICES ASSUME ProjectFactsAssumption, FactsTypeOK, AloneInv, [FactsNext]_factVars, NEW u \in Calls, Alone(u)',
                      call'[u].pc \in {"write", "sync", "done"}
               PROVE  /\ \A w \in Calls : w # u => call'[w].pc \notin CallOpen
                      /\ \A p \in pending' : p.by = u /\ p.value = facts'[p.key]
                      /\ call'[u].pc \in {"write", "done"} => pending' = {}
                      /\ call'[u].pc \in {"sync", "done"} =>
                           \A k \in Keys : facts'[k] \notin Absent =>
                               row'[k] = facts'[k] \/ \E p \in pending' : p.key = k
    BY DEF AloneInv
  <1> DEFINE Goal == /\ \A w \in Calls : w # u => call'[w].pc \notin CallOpen
                     /\ \A p \in pending' : p.by = u /\ p.value = facts'[p.key]
                     /\ call'[u].pc \in {"write", "done"} => pending' = {}
                     /\ call'[u].pc \in {"sync", "done"} =>
                          \A k \in Keys : facts'[k] \notin Absent =>
                              row'[k] = facts'[k] \/ \E p \in pending' : p.key = k
  <1> SUFFICES Goal
    OBVIOUS
  <1> USE DEF project, said
  <1>1. ASSUME NEW w \in Calls, NEW dto \in Dto, Begin(w, dto) PROVE Goal
    <2>1. w = u /\ Quiet
      BY <1>1 DEF Begin, Alone
    <2>2. call'[u].pc = "write" /\ pending' = {}
      BY <1>1, <2>1 DEF Begin, Quiet
    <2>3. \A x \in Calls : x # u => call'[x].pc \notin CallOpen
      BY <1>1, <2>1 DEF Begin, Quiet, FactsTypeOK, CallRecord
    <2> QED BY <2>2, <2>3
  <1>2. ASSUME NEW w \in Calls, Write(w) PROVE Goal
    <2>1. /\ \A x \in Calls : call'[x].alone = call[x].alone
          /\ \A x \in Calls : call'[x].pc = IF x = w THEN "sync" ELSE call[x].pc
          /\ latest' = latest /\ call[w].pc = "write"
      BY <1>2 DEF Write, FactsTypeOK, CallRecord
    <2>2. Alone(u) /\ (w # u => call[u].pc \in {"write", "sync", "done"})
      BY <2>1 DEF Alone
    <2>3. w = u
      BY <2>1, <2>2 DEF AloneInv, CallOpen
    <2>4. pending = {} /\ \A x \in Calls : x # u => call[x].pc \notin CallOpen
      BY <2>1, <2>2, <2>3 DEF AloneInv
    <2>5. facts' = BuildFacts(u) /\ pending' = Entries(u, BuildFacts(u))
      BY <1>2, <2>3, <2>4 DEF Write
    <2>6. BuildFacts(u) \in [Keys -> Recorded]
      BY BuiltTypes
    <2>7. /\ \A p \in pending' : p.by = u /\ p.value = facts'[p.key]
          /\ \A k \in Keys : facts'[k] \notin Absent => \E p \in pending' : p.key = k
      BY <2>5, <2>6, EntriesType
    <2> QED BY <2>1, <2>3, <2>4, <2>7
  <1>3. ASSUME NEW q \in pending, UpsertRow(q) PROVE Goal
    <2>1. /\ call' = call /\ facts' = facts /\ latest' = latest
          /\ pending' = pending \ {q} /\ row' = [row EXCEPT ![q.key] = q.value]
      BY <1>3 DEF UpsertRow
    <2>2. Alone(u) /\ call[u].pc \in {"write", "sync", "done"}
      BY <2>1 DEF Alone
    <2>3. q.value = facts[q.key] /\ q.key \in Keys
      BY <2>2 DEF AloneInv, FactsTypeOK, Upserts
    <2>4. \A k \in Keys : k # q.key => row'[k] = row[k]
      BY <2>1 DEF FactsTypeOK
    <2>5. row'[q.key] = facts[q.key]
      BY <2>1, <2>3 DEF FactsTypeOK
    <2>6. call[u].pc = "sync"
      BY <2>2 DEF AloneInv
    <2>7. \A k \in Keys : facts[k] \notin Absent =>
              row'[k] = facts[k] \/ \E p \in pending' : p.key = k
      BY <2>1, <2>2, <2>4, <2>5, <2>6 DEF AloneInv
    <2> QED BY <2>1, <2>2, <2>6, <2>7 DEF AloneInv
  <1>4. ASSUME NEW q \in pending, UpsertFails(q) PROVE Goal
    <2>0. q.by \in Calls
      BY DEF FactsTypeOK, Upserts
    <2>1. /\ call' = [call EXCEPT ![q.by] = IF @.pc = "sync" THEN Ended(q.by, "failed") ELSE @]
          /\ facts' = facts /\ latest' = latest /\ row' = row
      BY <1>4 DEF UpsertFails
    <2>2. /\ \A x \in Calls : x # q.by => call'[x] = call[x]
          /\ call'[q.by] = call[q.by] \/ (call'[q.by].pc = "failed" /\ call'[q.by].alone = call[q.by].alone
                                          /\ call[q.by].pc = "sync")
      BY <2>0, <2>1, EndedType DEF FactsTypeOK, CallPc
    <2>3. Alone(u) /\ call[u].pc \in {"write", "sync", "done"} /\ call'[u] = call[u]
      BY <2>1, <2>2 DEF Alone
    <2>4. q.by = u /\ call[u].pc = "sync"
      BY <2>3 DEF AloneInv
    <2>5. call'[u].pc = "failed"
      BY <2>0, <2>1, <2>4, EndedType DEF FactsTypeOK, CallPc
    <2> QED BY <2>5
  <1>5. ASSUME NEW w \in Calls, Answer(w) PROVE Goal
    <2>1. /\ call' = [call EXCEPT ![w] = Ended(w, "done")] /\ call[w].pc = "sync"
          /\ \A p \in pending : p.by # w
          /\ facts' = facts /\ latest' = latest /\ row' = row /\ pending' = pending
      BY <1>5 DEF Answer
    <2>2. /\ call'[w].pc = "done" /\ call'[w].alone = call[w].alone
          /\ \A x \in Calls : x # w => call'[x] = call[x]
      BY <2>1, EndedCalls DEF CallPc
    <2>3. Alone(u) /\ call[u].pc \in {"write", "sync", "done"}
      BY <2>1, <2>2 DEF Alone
    <2>4. w = u
      BY <2>1, <2>3 DEF AloneInv, CallOpen
    <2>5. pending = {}
      BY <2>1, <2>3, <2>4 DEF AloneInv
    <2> QED BY <2>1, <2>2, <2>3, <2>4, <2>5 DEF AloneInv
  <1>6. ASSUME NEW w \in Calls, WriteFails(w) \/ Kill(w) PROVE Goal
    <2>1. /\ \E pc \in {"failed", "lost"} : call' = [call EXCEPT ![w] = Ended(w, pc)]
          /\ facts' = facts /\ latest' = latest /\ row' = row /\ call[w].pc \in CallOpen
      BY <1>6 DEF WriteFails, Kill, CallOpen
    <2>2. /\ call'[w].pc \in {"failed", "lost"}
          /\ \A x \in Calls : x # w => call'[x] = call[x]
      BY <2>1, EndedCalls DEF CallPc
    <2>3. w # u
      BY <2>2
    <2>4. Alone(u) /\ call[u].pc \in {"write", "sync", "done"}
      BY <2>1, <2>2, <2>3 DEF Alone
    <2> QED BY <2>1, <2>3, <2>4 DEF AloneInv
  <1>7. CASE UNCHANGED factVars
    BY <1>7 DEF factVars, Alone, AloneInv
  <1> QED BY <1>1, <1>2, <1>3, <1>4, <1>5, <1>6, <1>7
          DEF FactsNext, CreateProject, UpdateProject, ProjectFactsAssumption

\* Whatever earlier calls have left half written, and whatever failed or died: a call that is
\* answered, had the project to itself and is the last leaves rows that agree with the project.
THEOREM SavingAgain ==
  ASSUME ProjectFactsAssumption
  PROVE  FactsSpec => []SavingRepairs
  <1> DEFINE Inv == FactsTypeOK /\ AloneInv
  <1>1. FactsInit => Inv
    BY InitType, InitAlone
  <1>2. Inv /\ [FactsNext]_factVars => Inv'
    BY TypeStep, AloneStep
  <1>3. Inv => SavingRepairs
    BY DEF AloneInv, Alone, SavingRepairs, Agree
  <1> QED BY <1>1, <1>2, <1>3, PTL DEF FactsSpec

(***************************************************************************)
(* TurnsKnowWhatWasStated.  Where clients take turns, whatever is recorded *)
(* of a fact, or on its way, was stated; a fact without a row may be as if *)
(* nothing was ever said; and a call that has written the project has left *)
(* there what its dto states of the facts it states in one place.          *)
(***************************************************************************)
Said(k, v) == v \notin Absent => v \in stated[k]

\* The one value a dto states of a fact is in the project row.
Left(dto) == \A k \in Keys \ overlaid : \A v \in Says(dto, k) :
    /\ Says(dto, k) = {v}
    /\ facts[k] = v
    /\ k \in Columns => column[k] = v

TurnInv ==
    turns =>
      /\ \A k \in Keys : /\ Said(k, row[k]) /\ Said(k, facts[k])
                         /\ row[k] = Undefined => Null \in stated[k]
                         /\ k \in Columns => Said(k, column[k])
      /\ \A p \in pending : p.value \in stated[p.key]
      /\ \A u \in Calls : call[u].pc \in CallOpen =>
           /\ Alone(u)
           /\ \A k \in Keys : Says(call[u].dto, k) \subseteq stated[k]
           /\ \A k \in Columns : Said(k, call[u].read[k])
           /\ \A k \in Columns \ overlaid : call[u].dto.facts[k] = Undefined
           /\ call[u].pc = "sync" => Left(call[u].dto)

LEMMA InitTurn == FactsInit => TurnInv
  BY UnusedTypes, NoValueAlike DEF FactsInit, TurnInv, Said, Nothing, NoColumns, CallOpen, Keys

\* What updateProject makes of what was said was said, too.
LEMMA BuiltSaid ==
  ASSUME FactsTypeOK, NEW u \in Calls,
         \A k \in Keys : Says(call[u].dto, k) \subseteq stated[k],
         \A k \in Columns : Said(k, call[u].read[k])
  PROVE  /\ \A k \in Columns : Said(k, NewColumn(u)[k])
         /\ \A k \in Keys : Said(k, BuildFacts(u)[k])
  <1>1. \A k \in Columns : k \in Keys
    BY DEF Keys
  <1>2. /\ \A k \in Columns : Said(k, call[u].dto.fields[k])
        /\ \A k \in Keys : Said(k, call[u].dto.facts[k])
    BY <1>1 DEF Says, Said
  <1>3. ASSUME NEW k \in Columns PROVE Said(k, NewColumn(u)[k])
    <2>1. NewColumn(u)[k] \in {call[u].dto.fields[k], call[u].read[k], Null}
      BY DEF NewColumn, OrElse
    <2> QED BY <1>2, <2>1, NoValueAlike DEF Said
  <1>4. ASSUME NEW k \in Keys PROVE Said(k, BuildFacts(u)[k])
    <2>1. BuildFacts(u)[k] \in {call[u].dto.facts[k], Undefined}
                                 \cup (IF k \in Columns THEN {NewColumn(u)[k]} ELSE {})
      BY DEF BuildFacts, OrElse
    <2> QED BY <1>2, <1>3, <2>1, NoValueAlike DEF Said
  <1> QED BY <1>3, <1>4

\* What a call writes of the facts it states in one place is what it states.
LEMMA BuiltLeft ==
  ASSUME ProjectFactsAssumption, FactsTypeOK, NEW u \in Calls,
         \A k \in Columns \ overlaid : call[u].dto.facts[k] = Undefined
  PROVE  \A k \in Keys \ overlaid : \A v \in Says(call[u].dto, k) :
            /\ Says(call[u].dto, k) = {v}
            /\ BuildFacts(u)[k] = v
            /\ k \in Columns => NewColumn(u)[k] = v
  <1> SUFFICES ASSUME NEW k \in Keys \ overlaid, NEW v \in Says(call[u].dto, k)
               PROVE  /\ Says(call[u].dto, k) = {v}
                      /\ BuildFacts(u)[k] = v
                      /\ k \in Columns => NewColumn(u)[k] = v
    OBVIOUS
  <1>1. CASE k \in Columns
    <2>1. call[u].dto.facts[k] = Undefined
      BY <1>1
    <2>2. v = call[u].dto.fields[k] /\ v \notin Absent /\ Says(call[u].dto, k) = {v}
      BY <1>1, <2>1, NoValueAlike DEF Says
    <2>3. v # Undefined
      BY <2>2, NoValueAlike
    <2> QED BY <1>1, <2>1, <2>2, <2>3, BuiltTypes
  <1>2. CASE k \notin Columns
    <2>1. v = call[u].dto.facts[k] /\ v \notin Absent /\ Says(call[u].dto, k) = {v}
      BY <1>2 DEF Says
    <2>2. v # Undefined
      BY <2>1, NoValueAlike
    <2> QED BY <1>2, <2>1, <2>2, BuiltTypes
  <1> QED BY <1>1, <1>2

\* A call that ends without an answer changes nothing of what was said.
LEMMA Unanswered ==
  ASSUME TurnInv, turns,
         column' = column, facts' = facts, row' = row, latest' = latest, stated' = stated,
         overlaid' = overlaid, pending' \subseteq pending,
         \A x \in Calls : call'[x].pc \in CallOpen => call'[x] = call[x]
  PROVE  TurnInv'
  <1>1. /\ \A k \in Keys : Said(k, row[k])' /\ Said(k, facts[k])'
                           /\ (row'[k] = Undefined => Null \in stated'[k])
                           /\ (k \in Columns => Said(k, column[k])')
        /\ \A p \in pending' : p.value \in stated'[p.key]
    BY DEF TurnInv, Said
  <1>2. ASSUME NEW x \in Calls, call'[x].pc \in CallOpen
        PROVE  /\ Alone(x)'
               /\ \A k \in Keys : Says(call'[x].dto, k) \subseteq stated'[k]
               /\ \A k \in Columns : Said(k, call[x].read[k])'
               /\ \A k \in Columns \ overlaid' : call'[x].dto.facts[k] = Undefined
               /\ call'[x].pc = "sync" => Left(call[x].dto)'
    <2>1. call'[x] = call[x]
      BY <1>2
    <2>2. Left(call[x].dto) => Left(call[x].dto)'
      BY <2>1 DEF Left
    <2> QED BY <1>2, <2>1, <2>2 DEF TurnInv, Said, Alone
  <1> QED BY <1>1, <1>2 DEF TurnInv

LEMMA TurnStep == ProjectFactsAssumption /\ FactsTypeOK /\ AloneInv /\ TurnInv /\ [FactsNext]_factVars => TurnInv'
  <1> SUFFICES ASSUME ProjectFactsAssumption, FactsTypeOK, AloneInv, TurnInv, [FactsNext]_factVars, turns PROVE TurnInv'
    <2>1. turns' = turns \/ ~[FactsNext]_factVars
      BY DEF FactsNext, CreateProject, UpdateProject, Begin, Write, UpsertRow, UpsertFails, Answer,
             WriteFails, Kill, factVars
    <2> QED BY <2>1 DEF TurnInv
  <1> USE DEF project, said
  <1>0. stated \in [Keys -> SUBSET Recorded]
    BY DEF FactsTypeOK
  <1>1. ASSUME NEW u \in Calls, NEW dto \in Dto, Begin(u, dto) PROVE TurnInv'
    <2>1. /\ UNCHANGED <<column, facts, row, pending>> /\ latest' = u /\ Quiet
          /\ stated' = [k \in Keys |-> stated[k] \cup Says(dto, k)]
          /\ overlaid' = overlaid \cup Overlays(dto)
      BY <1>1 DEF Begin
    <2>2. /\ call'[u].pc = "write" /\ call'[u].dto = dto /\ call'[u].read = column
          /\ call'[u].alone
      BY <1>1, <2>1 DEF Begin
    <2>3. \A w \in Calls : w # u => call'[w].pc \notin CallOpen
      BY <1>1, <2>1 DEF Begin, Quiet, FactsTypeOK, CallRecord
    <2>4. \A k \in Keys : stated[k] \subseteq stated'[k] /\ Says(dto, k) \subseteq stated'[k]
      BY <2>1
    <2>7. \A k \in Columns \ overlaid' : dto.facts[k] = Undefined
      BY <2>1 DEF Overlays
    <2>5. pending = {}
      BY <2>1 DEF Quiet
    <2>6. \A k \in Columns : k \in Keys
      BY DEF Keys
    <2> QED BY <2>1, <2>2, <2>3, <2>4, <2>5, <2>6, <2>7 DEF TurnInv, Said, Alone
  <1>2. ASSUME NEW u \in Calls, Write(u) PROVE TurnInv'
    <2>1. /\ \A x \in Calls : /\ call'[x].alone = call[x].alone /\ call'[x].dto = call[x].dto
                              /\ call'[x].read = call[x].read
                              /\ call'[x].pc = IF x = u THEN "sync" ELSE call[x].pc
          /\ latest' = latest /\ call[u].pc = "write"
          /\ row' = row /\ stated' = stated /\ overlaid' = overlaid /\ facts' = BuildFacts(u) /\ column' = NewColumn(u)
          /\ pending' = pending \cup Entries(u, BuildFacts(u))
      BY <1>2 DEF Write, FactsTypeOK, CallRecord
    <2>2. /\ Alone(u) /\ \A k \in Keys : Says(call[u].dto, k) \subseteq stated[k]
          /\ \A k \in Columns : Said(k, call[u].read[k])
          /\ \A k \in Columns \ overlaid : call[u].dto.facts[k] = Undefined
      BY <2>1 DEF TurnInv, CallOpen
    <2>3. \A x \in Calls : x # u => call'[x].pc \notin CallOpen
      BY <2>1, <2>2 DEF AloneInv
    <2>4. /\ \A k \in Columns : Said(k, NewColumn(u)[k])
          /\ \A k \in Keys : Said(k, BuildFacts(u)[k])
      BY <2>2, BuiltSaid
    <2>5. Left(call[u].dto)'
      BY <2>1, <2>2, BuiltLeft DEF Left
    <2>6. ASSUME NEW p \in Entries(u, BuildFacts(u)) PROVE p.value \in stated[p.key]
      <3>1. p.key \in Keys /\ BuildFacts(u)[p.key] \notin Absent /\ p.value = BuildFacts(u)[p.key]
        BY DEF Entries
      <3> QED BY <2>4, <3>1 DEF Said
    <2>7. /\ \A k \in Keys : Said(k, row[k])' /\ Said(k, facts[k])'
                             /\ (row'[k] = Undefined => Null \in stated'[k])
          /\ \A k \in Columns : Said(k, column[k])'
      BY <2>1, <2>4 DEF TurnInv, Said
    <2>8. \A p \in pending' : p.value \in stated'[p.key]
      BY <2>1, <2>6 DEF TurnInv
    <2>9. /\ Alone(u)' /\ \A k \in Keys : Says(call'[u].dto, k) \subseteq stated'[k]
          /\ \A k \in Columns : Said(k, call[u].read[k])'
          /\ \A k \in Columns \ overlaid' : call'[u].dto.facts[k] = Undefined
      BY <2>1, <2>2 DEF Alone, Said
    <2> QED BY <2>3, <2>5, <2>7, <2>8, <2>9 DEF TurnInv
  <1>3. ASSUME NEW q \in pending, UpsertRow(q) PROVE TurnInv'
    <2>1. /\ UNCHANGED <<column, facts, call, latest, stated, overlaid>>
          /\ pending' = pending \ {q} /\ row' = [row EXCEPT ![q.key] = q.value]
      BY <1>3 DEF UpsertRow
    <2>2. q.key \in Keys /\ q.value \in AnyValue /\ q.value \in stated[q.key]
      BY DEF FactsTypeOK, Upserts, TurnInv
    <2>3. \A k \in Keys : row'[k] = row[k] \/ (k = q.key /\ row'[k] = q.value)
      BY <2>1, <2>2 DEF FactsTypeOK
    <2>4. \A k \in Keys : Said(k, row[k])' /\ (row'[k] = Undefined => Null \in stated'[k])
      <3> SUFFICES ASSUME NEW k \in Keys PROVE Said(k, row[k])' /\ (row'[k] = Undefined => Null \in stated'[k])
        OBVIOUS
      <3>1. CASE row'[k] = row[k]
        BY <2>1, <3>1 DEF TurnInv, Said
      <3>2. CASE k = q.key /\ row'[k] = q.value
        <4>1. q.value \in stated'[k] /\ q.value \notin Absent
          BY <2>1, <2>2, <3>2, ValuesPresent
        <4> QED BY <3>2, <4>1, NoValueAlike DEF Said
      <3> QED BY <2>3, <3>1, <3>2
    <2> QED BY <2>1, <2>4 DEF TurnInv, Said, Alone, Left
  <1>4. ASSUME NEW q \in pending, UpsertFails(q) PROVE TurnInv'
    <2>0. q.by \in Calls
      BY DEF FactsTypeOK, Upserts
    <2>1. /\ call' = [call EXCEPT ![q.by] = IF @.pc = "sync" THEN Ended(q.by, "failed") ELSE @]
          /\ UNCHANGED <<column, facts, row, latest, stated, overlaid>> /\ pending' \subseteq pending
      BY <1>4 DEF UpsertFails
    <2>2. \A x \in Calls : call'[x] = call[x] \/ call'[x].pc = "failed"
      BY <2>0, <2>1, EndedType DEF FactsTypeOK, CallPc
    <2>3. \A x \in Calls : call'[x].pc \in CallOpen => call'[x] = call[x]
      BY <2>2 DEF CallOpen
    <2> QED BY <2>1, <2>3, Unanswered
  <1>5. ASSUME NEW u \in Calls, Answer(u) PROVE TurnInv'
    <2>1. /\ call' = [call EXCEPT ![u] = Ended(u, "done")] /\ call[u].pc = "sync"
          /\ \A p \in pending : p.by # u
          /\ UNCHANGED <<column, facts, row, pending>>
          /\ stated' = [k \in Keys |-> IF k \in overlaid \/ Says(call[u].dto, k) = {} THEN stated[k]
                                       ELSE Says(call[u].dto, k)]
      BY <1>5 DEF Answer
    <2>2. Alone(u)
      BY <2>1 DEF TurnInv, CallOpen
    <2>3. pending = {} /\ \A k \in Keys : facts[k] \notin Absent => row[k] = facts[k]
      BY <2>1, <2>2 DEF AloneInv
    <2>4. \A x \in Calls : call'[x].pc \notin CallOpen
      <3>1. call'[u].pc = "done" /\ \A x \in Calls : x # u => call'[x] = call[x]
        BY <2>1, EndedCalls DEF CallPc
      <3> QED BY <2>1, <2>2, <3>1 DEF AloneInv, CallOpen
    <2>5. ASSUME NEW k \in Keys
          PROVE  /\ Said(k, row[k])' /\ Said(k, facts[k])'
                 /\ (row'[k] = Undefined => Null \in stated'[k])
                 /\ (k \in Columns => Said(k, column[k])')
      <3>1. CASE k \in overlaid \/ Says(call[u].dto, k) = {}
        <4>1. stated'[k] = stated[k]
          BY <2>1, <3>1
        <4> QED BY <2>1, <4>1 DEF TurnInv, Said
      <3>2. CASE k \notin overlaid /\ Says(call[u].dto, k) # {}
        <4>1. PICK v : v \in Says(call[u].dto, k)
          BY <3>2
        <4>2. Says(call[u].dto, k) = {v} /\ facts[k] = v /\ (k \in Columns => column[k] = v)
          BY <2>1, <3>2, <4>1 DEF TurnInv, CallOpen, Left
        <4>3. stated'[k] = {v} /\ v \notin Absent
          BY <2>1, <3>2, <4>1, <4>2 DEF Says
        <4>4. row[k] = v /\ v # Undefined
          BY <2>3, <4>2, <4>3, NoValueAlike
        <4> QED BY <2>1, <4>2, <4>3, <4>4 DEF Said
      <3> QED BY <3>1, <3>2
    <2> QED BY <2>1, <2>3, <2>4, <2>5 DEF TurnInv
  <1>6. ASSUME NEW u \in Calls, WriteFails(u) \/ Kill(u) PROVE TurnInv'
    <2>1. /\ \E pc \in {"failed", "lost"} : call' = [call EXCEPT ![u] = Ended(u, pc)]
          /\ UNCHANGED <<column, facts, row, latest, stated, overlaid>> /\ pending' \subseteq pending
      BY <1>6 DEF WriteFails, Kill
    <2>2. \A x \in Calls : call'[x].pc \in CallOpen => call'[x] = call[x]
      BY <2>1, EndedCalls DEF CallPc, CallOpen
    <2> QED BY <2>1, <2>2, Unanswered
  <1>7. CASE UNCHANGED factVars
    BY <1>7 DEF factVars, TurnInv, Said, Alone, Left
  <1> QED BY <1>1, <1>2, <1>3, <1>4, <1>5, <1>6, <1>7
          DEF FactsNext, CreateProject, UpdateProject, ProjectFactsAssumption

\* Where clients take turns, the rule engine knows every fact as it was last stated, or, after
\* a call that failed half way, as stated before, over any number of calls; a column that was
\* named under facts, too, as one of the values stated.
THEOREM TurnsKnown ==
  ASSUME ProjectFactsAssumption
  PROVE  FactsSpec => []TurnsKnowWhatWasStated
  <1> DEFINE Inv == FactsTypeOK /\ AloneInv /\ TurnInv
  <1>1. FactsInit => Inv
    BY InitType, InitAlone, InitTurn
  <1>2. Inv /\ [FactsNext]_factVars => Inv'
    BY TypeStep, AloneStep, TurnStep
  <1>3. Inv => TurnsKnowWhatWasStated
    <2> SUFFICES ASSUME FactsTypeOK, TurnInv, turns, NEW k \in Keys PROVE Known(EngineFacts[k]) \in stated[k]
      BY DEF TurnsKnowWhatWasStated
    <2>1. CASE row[k] # Undefined
      <3>1. EngineFacts[k] = row[k] /\ row[k] \in AnyValue
        BY <2>1 DEF EngineFacts, OrElse, FactsTypeOK
      <3>2. row[k] \notin Absent
        BY <3>1, ValuesPresent
      <3> QED BY <2>1, <3>1, <3>2 DEF TurnInv, Said, Known
    <2>2. CASE row[k] = Undefined
      <3>1. Null \in stated[k] /\ Said(k, facts[k]) /\ (k \in Columns => Said(k, column[k]))
        BY <2>2 DEF TurnInv
      <3>2. EngineFacts[k] \in {facts[k], Undefined} \cup (IF k \in Columns THEN {column[k]} ELSE {})
        BY <2>2 DEF EngineFacts, OrElse, ColumnOf
      <3>3. Said(k, EngineFacts[k])
        BY <3>1, <3>2, NoValueAlike DEF Said
      <3> QED BY <3>1, <3>3, NoValueAlike DEF Known, Said, Absent
    <2> QED BY <2>1, <2>2
  <1> QED BY <1>1, <1>2, <1>3, PTL DEF FactsSpec

(***************************************************************************)
(* The conditions of the rules: what the engine makes of one is among the  *)
(* truth values it may have.  Both are recursive functions over the JSON   *)
(* trees; Recursion says that such functions exist, and what is wrong      *)
(* somewhere is wrong in a condition whose parts are right.                *)
(***************************************************************************)
\* Parts nest finitely.
Nested(C, Parts) ==
  /\ \A c \in C : Parts[c] \subseteq C
  /\ \A S \in SUBSET C : S # {} => \E c \in S : Parts[c] \cap S = {}

\* What B makes of c depends on what is held of the parts of c.
ByParts(C, Parts, V, B) ==
  \A c \in C :
    /\ \A f \in [C -> V] : B[c][f] \in V
    /\ \A f, g \in [C -> V] : (\A p \in Parts[c] : f[p] = g[p]) => B[c][f] = B[c][g]

\* A function of each member's parts has a fixed point.
LEMMA Recursion ==
  ASSUME NEW C, NEW Parts, NEW V, NEW B,
         Nested(C, Parts), V # {}, ByParts(C, Parts, V, B)
  PROVE  \E f \in [C -> V] : \A c \in C : f[c] = B[c][f]
  <1> DEFINE Closed(S)   == \A c \in S : Parts[c] \subseteq S
             Right(f, S) == \A c \in S : f[c] = B[c][f]
             Within(f, S, c) == Closed(S) /\ Right(f, S) /\ c \in S
             v0 == CHOOSE v \in V : TRUE
             Good == {c \in C : \E S \in SUBSET C, f \in [C -> V] : Within(f, S, c)}
  <1> USE DEF Nested, ByParts
  <1>1. ASSUME NEW S \in SUBSET C, NEW T \in SUBSET C, NEW f \in [C -> V], NEW g \in [C -> V],
               Closed(S), Right(f, S), Closed(T), Right(g, T)
        PROVE  \A c \in S \cap T : f[c] = g[c]
    <2> DEFINE D == {c \in S \cap T : f[c] # g[c]}
    <2>1. SUFFICES ASSUME D # {} PROVE FALSE
      OBVIOUS
    <2>2. PICK c \in D : Parts[c] \cap D = {}
      <3> D \in SUBSET C
        OBVIOUS
      <3> QED BY <2>1
    <2>3. \A p \in Parts[c] : f[p] = g[p]
      BY <1>1, <2>2
    <2>4. f[c] = B[c][f] /\ g[c] = B[c][g] /\ c \in C
      BY <1>1
    <2>5. B[c][f] = B[c][g]
      BY <2>3, <2>4
    <2> QED BY <2>4, <2>5
  <1>2. \E g \in [C -> V] : \A S \in SUBSET C, f \in [C -> V] :
          Closed(S) /\ Right(f, S) => \A c \in S : g[c] = f[c]
    <2> DEFINE Of(x, v) == \E S \in SUBSET C, f \in [C -> V] : Within(f, S, x) /\ v = f[x]
               g == [x \in C |-> IF x \in Good THEN CHOOSE v \in V : Of(x, v) ELSE v0]
    <2>1. ASSUME NEW S \in SUBSET C, NEW f \in [C -> V], Closed(S), Right(f, S), NEW c \in S
          PROVE  g[c] = f[c]
      <3>1. Within(f, S, c)
        BY <2>1
      <3>2. c \in Good /\ Of(c, f[c]) /\ f[c] \in V
        BY <3>1
      <3>3. ASSUME NEW v \in V, Of(c, v) PROVE v = f[c]
        <4>1. PICK T \in SUBSET C, h \in [C -> V] : Within(h, T, c) /\ v = h[c]
          BY <3>3
        <4> QED BY <1>1, <2>1, <4>1
      <3> HIDE DEF Of
      <3>4. (CHOOSE v \in V : Of(c, v)) = f[c]
        BY <3>2, <3>3
      <3> QED BY <3>2, <3>4
    <2>2. g \in [C -> V]
      <3>1. ASSUME NEW x \in Good PROVE (CHOOSE v \in V : Of(x, v)) \in V
        <4>1. \E v \in V : Of(x, v)
          OBVIOUS
        <4> HIDE DEF Of
        <4> QED BY <4>1
      <3> HIDE DEF Of, Good
      <3> QED BY <3>1
    <2> HIDE DEF g
    <2> QED BY <2>1, <2>2
  <1>3. PICK g \in [C -> V] : \A S \in SUBSET C, f \in [C -> V] :
          Closed(S) /\ Right(f, S) => \A c \in S : g[c] = f[c]
    BY <1>2
  <1>4. Closed(Good)
    OBVIOUS
  <1>5. Right(g, Good)
    <2> SUFFICES ASSUME NEW c \in Good PROVE g[c] = B[c][g]
      OBVIOUS
    <2>1. PICK S \in SUBSET C, f \in [C -> V] : Within(f, S, c)
      OBVIOUS
    <2>2. \A p \in Parts[c] : g[p] = f[p]
      BY <1>3, <2>1
    <2> QED BY <1>3, <2>1, <2>2
  <1>6. Good = C
    <2> SUFFICES ASSUME Good # C PROVE FALSE
      OBVIOUS
    <2>1. PICK c \in C \ Good : Parts[c] \cap (C \ Good) = {}
      OBVIOUS
    <2> DEFINE T == Good \cup {c}
               h == [g EXCEPT ![c] = B[c][g]]
    <2>2. h \in [C -> V] /\ T \in SUBSET C /\ h[c] = B[c][g] /\ \A x \in Good : h[x] = g[x]
      BY <2>1
    <2>3. Parts[c] \subseteq Good /\ Closed(T)
      BY <1>4, <2>1
    <2> HIDE DEF h
    <2>4. \A x \in T : \A p \in Parts[x] : p \in Good
      BY <2>3, <1>4
    <2>5. ASSUME NEW x \in T PROVE B[x][h] = B[x][g]
      <3>1. \A p \in Parts[x] : h[p] = g[p]
        BY <2>2, <2>4
      <3> QED BY <2>1, <2>2, <3>1
    <2>6. Right(h, T)
      <3>1. ASSUME NEW x \in T PROVE h[x] = B[x][g]
        <4>1. CASE x = c
          BY <2>2, <4>1
        <4>2. CASE x \in Good
          BY <1>5, <2>2, <4>2
        <4> QED BY <4>1, <4>2
      <3> QED BY <2>5, <3>1
    <2>7. Within(h, T, c)
      BY <2>3, <2>6
    <2> QED BY <2>1, <2>2, <2>7
  <1> HIDE DEF Good
  <1> QED BY <1>5, <1>6
LEMMA TestIsTruth ==
  ASSUME NEW operator, NEW v, NEW target
  PROVE  Test(operator, v, target) \in BOOLEAN
  <1>1. /\ Equal(v, target) \in BOOLEAN /\ (~Equal(v, target)) \in BOOLEAN
        /\ Listed(v, target) \in BOOLEAN /\ Listed(target, v) \in BOOLEAN
    BY DEF Equal, Listed
  <1>2. CASE operator \in {"eq", "neq"}
    BY <1>1, <1>2, Zenon DEF Test
  <1>3. CASE operator \in {"in", "nin", "contains"}
    BY <1>1, <1>3, Zenon DEF Test
  <1>4. CASE operator = "gt"
    BY <1>4, Zenon DEF Test
  <1>5. CASE operator = "gte"
    BY <1>5, Zenon DEF Test
  <1>6. CASE operator = "lt"
    BY <1>6, Zenon DEF Test
  <1>7. CASE operator = "lte"
    BY <1>7, Zenon DEF Test
  <1>8. CASE operator = "exists"
    BY <1>8, Zenon DEF Test
  <1>9. CASE operator \notin {"eq", "neq", "in", "nin", "contains", "gt", "gte", "lt", "lte", "exists"}
    BY <1>9, Zenon DEF Test
  <1> QED BY <1>2, <1>3, <1>4, <1>5, <1>6, <1>7, <1>8, <1>9

\* Of values one of which is no list and no object, === tells what a reader would.
LEMMA SameIsAlike ==
  ASSUME NEW v, NEW w, Scalar(v) \/ Scalar(w)
  PROVE  /\ Equal(v, w) <=> Alike(v, w)
         /\ (Scalar(v) /\ Fold(v) = Fold(w)) <=> Alike(v, w)
  <1>1. ASSUME NEW x, NEW y, x[1] = "word", Fold(x) = Fold(y)
        PROVE  y[1] = "word" /\ x[2] = y[2]
    <2>1. Fold(x) = <<"word", x[2], "lower">>
      BY <1>1 DEF Fold, Word
    <2>2. CASE y[1] = "word"
      BY <1>1, <2>1, <2>2 DEF Fold, Word
    <2>3. CASE y[1] # "word"
      BY <1>1, <2>1, <2>3 DEF Fold
    <2> QED BY <2>2, <2>3
  <1>2. Fold(v) = Fold(w) => Alike(v, w)
    <2>1. CASE v[1] = "word"
      BY <1>1, <2>1 DEF Alike
    <2>2. CASE w[1] = "word"
      BY <1>1, <2>2 DEF Alike
    <2>3. CASE v[1] # "word" /\ w[1] # "word"
      BY <2>3 DEF Alike, Fold
    <2> QED BY <2>1, <2>2, <2>3
  <1>3. Alike(v, w) => Fold(v) = Fold(w) /\ Scalar(v)
    BY DEF Alike, Fold, Word, Scalar
  <1> QED BY <1>2, <1>3 DEF Equal

\* includes() finds what a reader would.
LEMMA ListedIsAmong ==
  ASSUME NEW v, NEW list, Scalar(v)
  PROVE  Listed(v, list) <=> Among(v, list[2])
  <1>1. \A i \in DOMAIN list[2] : Fold(list[2][i]) = Fold(v) <=> Alike(v, list[2][i])
    BY SameIsAlike
  <1> QED BY <1>1 DEF Listed, Among

LEMMA TestAgrees ==
  ASSUME NEW operator, NEW v, NEW target, Numeric(v), Numeric(target), Sure(operator, v, target)
  PROVE  Test(operator, v, target) <=> Compare(operator, v, target)
  <1>1. CASE operator \in {"gt", "gte", "lt", "lte"}
    <2>1. v[1] = "number" /\ target[1] = "number" /\ v[2] \in Int /\ target[2] \in Int
      BY <1>1 DEF Sure, Orderings, Numeric
    <2>2. ToNumber(v) = {v[2]} /\ ToNumber(target) = {target[2]}
      BY <2>1 DEF ToNumber
    <2>3. CASE operator = "gt"
      BY <2>1, <2>2, <2>3 DEF Test, Compare
    <2>4. CASE operator = "gte"
      BY <2>1, <2>2, <2>4 DEF Test, Compare
    <2>5. CASE operator = "lt"
      BY <2>1, <2>2, <2>5 DEF Test, Compare
    <2>6. CASE operator = "lte"
      BY <2>1, <2>2, <2>6 DEF Test, Compare
    <2> QED BY <1>1, <2>3, <2>4, <2>5, <2>6
  <1>2. CASE operator \in {"eq", "neq"}
    <2>1. Scalar(v) \/ Scalar(target)
      BY <1>2 DEF Sure, Orderings
    <2>2. Equal(v, target) <=> Alike(v, target)
      BY <2>1, SameIsAlike
    <2>3. CASE operator = "eq"
      BY <2>2, <2>3, Zenon DEF Test, Compare
    <2>4. CASE operator = "neq"
      BY <2>2, <2>4, Zenon DEF Test, Compare
    <2> QED BY <1>2, <2>3, <2>4
  <1>3. CASE operator \in {"in", "nin"}
    <2>1. Scalar(v) /\ target[1] = "list"
      BY <1>3 DEF Sure, Orderings
    <2>2. Listed(v, target) <=> Among(v, target[2])
      BY <2>1, ListedIsAmong
    <2>3. CASE operator = "in"
      BY <2>1, <2>2, <2>3, Zenon DEF Test, Compare
    <2>4. CASE operator = "nin"
      BY <2>1, <2>2, <2>4, Zenon DEF Test, Compare
    <2> QED BY <1>3, <2>3, <2>4
  <1>4. CASE operator = "contains"
    <2>1. CASE v[1] = "list" /\ Scalar(target)
      <3>1. Listed(target, v) <=> Among(target, v[2])
        BY <2>1, ListedIsAmong
      <3>2. v[1] # "word"
        BY <2>1
      <3> QED BY <1>4, <2>1, <3>1, <3>2, Zenon DEF Test, Compare
    <2>2. CASE v[1] = "word" /\ target[1] = "word"
      BY <1>4, <2>2 DEF Test, Compare, TextOf
    <2> QED BY <1>4, <2>1, <2>2 DEF Sure, Orderings
  <1>5. CASE operator = "exists"
    <2> DEFINE empty == EmptyWord
    <2>1. Scalar(empty) /\ Fold(empty) = empty
      <3>1. empty[1] = "word" /\ empty[2] = NoText /\ empty = <<"word", NoText, "lower">>
        BY DEF EmptyWord, Word
      <3> HIDE DEF empty
      <3> QED BY <3>1 DEF Scalar, Fold, Word
    <2>2. Fold(v) = empty <=> Alike(v, empty)
      <3> HIDE DEF empty
      <3>1. Fold(v) = Fold(empty) => Scalar(v)
        BY <2>1 DEF Fold, Scalar, Word
      <3>2. (Scalar(v) /\ Fold(v) = Fold(empty)) <=> Alike(v, empty)
        BY <2>1, SameIsAlike
      <3> QED BY <2>1, <3>1, <3>2
    <2> HIDE DEF empty
    <2>3. Compare("exists", v, target) <=> v \notin Absent /\ ~Alike(v, empty)
      BY Zenon DEF Compare, empty
    <2>4. Test("exists", v, target) <=> v \notin Absent /\ Fold(v) # empty
      BY Zenon DEF Test, empty
    <2> QED BY <1>5, <2>2, <2>3, <2>4, Zenon
  <1>6. CASE operator \notin {"gt", "gte", "lt", "lte", "eq", "neq", "in", "nin", "contains", "exists"}
    BY <1>6 DEF Test, Compare
  <1> QED BY <1>1, <1>2, <1>3, <1>4, <1>5, <1>6

LEMMA PartsBelow ==
  ASSUME ConditionsAssumption
  PROVE  /\ \A c \in Conditions : Form[c].parts \subseteq Conditions
         /\ \A S \in SUBSET Conditions : S # {} => \E c \in S : Form[c].parts \cap S = {}
  <1>1. ASSUME NEW S \in SUBSET Conditions, S # {}
        PROVE  \E c \in S : Form[c].parts \cap S = {}
    <2>1. CASE \E c \in S : Form[c].parts = {}
      BY <2>1
    <2>2. CASE \A c \in S : Form[c].parts # {}
      BY <1>1, <2>2 DEF ConditionsAssumption
    <2> QED BY <2>1, <2>2
  <1> QED BY <1>1 DEF ConditionsAssumption

\* The body of EvaluateCondition.
EvaluateBy(known, holds, c) ==
  LET form == Form[c] IN
  CASE form.kind = "all"  -> \A part \in form.parts : holds[part]
    [] form.kind = "any"  -> \E part \in form.parts : holds[part]
    [] form.kind = "not"  -> \A part \in form.parts : ~holds[part]
    [] form.kind = "test" -> Test(form.operator, known[form.fact], Target(form))
    [] OTHER -> TRUE

LEMMA EvaluateForms ==
  ASSUME NEW known, NEW holds, NEW c
  PROVE  /\ EvaluateBy(known, holds, c) \in BOOLEAN
         /\ Form[c].kind = "all" => (EvaluateBy(known, holds, c) <=> \A part \in Form[c].parts : holds[part])
         /\ Form[c].kind = "any" => (EvaluateBy(known, holds, c) <=> \E part \in Form[c].parts : holds[part])
         /\ Form[c].kind = "not" => (EvaluateBy(known, holds, c) <=> \A part \in Form[c].parts : ~holds[part])
         /\ Form[c].kind = "test" =>
               (EvaluateBy(known, holds, c) <=> Test(Form[c].operator, known[Form[c].fact], Target(Form[c])))
         /\ Form[c].kind \notin {"all", "any", "not", "test"} => EvaluateBy(known, holds, c)
  <1>1. CASE Form[c].kind = "all"
    BY <1>1 DEF EvaluateBy
  <1>2. CASE Form[c].kind = "any"
    BY <1>2 DEF EvaluateBy
  <1>3. CASE Form[c].kind = "not"
    BY <1>3 DEF EvaluateBy
  <1>4. CASE Form[c].kind = "test"
    BY <1>4, TestIsTruth DEF EvaluateBy
  <1>5. CASE Form[c].kind \notin {"all", "any", "not", "test"}
    BY <1>5 DEF EvaluateBy
  <1> QED BY <1>1, <1>2, <1>3, <1>4, <1>5

LEMMA Evaluated ==
  ASSUME ConditionsAssumption, NEW known
  PROVE  /\ EvaluateCondition(known) \in [Conditions -> BOOLEAN]
         /\ \A c \in Conditions :
               EvaluateCondition(known)[c] = EvaluateBy(known, EvaluateCondition(known), c)
  <1> DEFINE B == [c \in Conditions |-> [holds \in [Conditions -> BOOLEAN] |-> EvaluateBy(known, holds, c)]]
             Body(holds) == [c \in Conditions |-> EvaluateBy(known, holds, c)]
  <1>1. \A c \in Conditions : \A holds \in [Conditions -> BOOLEAN] : B[c][holds] \in BOOLEAN
    BY EvaluateForms
  <1>2. ASSUME NEW c \in Conditions,
               NEW f \in [Conditions -> BOOLEAN], NEW g \in [Conditions -> BOOLEAN],
               \A part \in Form[c].parts : f[part] = g[part]
        PROVE  B[c][f] = B[c][g]
    <2>1. EvaluateBy(known, f, c) <=> EvaluateBy(known, g, c)
      BY <1>2, EvaluateForms
    <2> QED BY <2>1, EvaluateForms
  <1>3. \E holds \in [Conditions -> BOOLEAN] : \A c \in Conditions : holds[c] = B[c][holds]
    <2> DEFINE Parts == [c \in Conditions |-> Form[c].parts]
    <2> HIDE DEF B
    <2>1. Nested(Conditions, Parts)
      BY PartsBelow DEF Nested
    <2>2. ByParts(Conditions, Parts, BOOLEAN, B)
      BY <1>1, <1>2 DEF ByParts
    <2> HIDE DEF Parts
    <2>3. BOOLEAN # {}
      OBVIOUS
    <2> DEFINE V == BOOLEAN
    <2>4. ByParts(Conditions, Parts, V, B) /\ V # {}
      BY <2>2, <2>3
    <2> HIDE DEF V
    <2>5. \E holds \in [Conditions -> V] : \A c \in Conditions : holds[c] = B[c][holds]
      BY <2>1, <2>4, Recursion
    <2> QED BY <2>5 DEF V
  <1>4. \E holds : holds = Body(holds)
    BY <1>3
  <1>5. EvaluateCondition(known) = CHOOSE holds : holds = Body(holds)
    BY Zenon DEF EvaluateCondition, EvaluateBy
  <1> HIDE DEF Body
  <1>6. EvaluateCondition(known) = Body(EvaluateCondition(known))
    BY <1>4, <1>5
  <1>7. \A c \in Conditions :
          EvaluateCondition(known)[c] = EvaluateBy(known, EvaluateCondition(known), c)
    BY <1>6 DEF Body
  <1>8. EvaluateCondition(known) = [c \in Conditions |-> EvaluateBy(known, EvaluateCondition(known), c)]
    BY <1>6 DEF Body
  <1>9. \A c \in Conditions : EvaluateBy(known, EvaluateCondition(known), c) \in BOOLEAN
    BY EvaluateForms
  <1> QED BY <1>7, <1>8, <1>9

\* The body of Truths.
TruthsBy(known, of, c) ==
  LET form == Form[c] IN
  CASE form.kind = "all" ->
         {b \in BOOLEAN : IF b THEN \A part \in form.parts : TRUE \in of[part]
                               ELSE \E part \in form.parts : FALSE \in of[part]}
    [] form.kind = "any" ->
         {b \in BOOLEAN : IF b THEN \E part \in form.parts : TRUE \in of[part]
                               ELSE \A part \in form.parts : FALSE \in of[part]}
    [] form.kind = "not" -> {~b : b \in UNION {of[part] : part \in form.parts}}
    [] form.kind = "test" ->
         IF Sure(form.operator, known[form.fact], Target(form))
           THEN {Compare(form.operator, known[form.fact], Target(form))}
           ELSE BOOLEAN
    [] OTHER -> {TRUE}

LEMMA CompareIsTruth ==
  ASSUME NEW operator, NEW v, NEW target
  PROVE  Compare(operator, v, target) \in BOOLEAN
  <1>1. /\ (v[2] > target[2]) \in BOOLEAN /\ (~(v[2] > target[2])) \in BOOLEAN
        /\ (v[2] < target[2]) \in BOOLEAN
    BY SMT
  <1>2. CASE operator = "gt"
    BY <1>1, <1>2, Zenon DEF Compare
  <1>3. CASE operator = "lte"
    BY <1>1, <1>3, Zenon DEF Compare
  <1>4. CASE operator = "gte"
    BY <1>4, Zenon DEF Compare
  <1>5. CASE operator = "lt"
    BY <1>1, <1>5, Zenon DEF Compare
  <1>6. CASE operator \notin {"gt", "gte", "lt", "lte"}
    <2>1. /\ Alike(v, target) \in BOOLEAN /\ (~Alike(v, target)) \in BOOLEAN
          /\ Among(v, target[2]) \in BOOLEAN /\ (~Among(v, target[2])) \in BOOLEAN
          /\ Among(target, v[2]) \in BOOLEAN
          /\ (v \notin Absent /\ ~Alike(v, EmptyWord)) \in BOOLEAN
      BY DEF Alike, Among
    <2>2. CASE operator \in {"eq", "neq"}
      BY <2>1, <2>2, Zenon DEF Compare
    <2>3. CASE operator \in {"in", "nin"}
      BY <2>1, <2>3, Zenon DEF Compare
    <2>4. CASE operator = "contains"
      <3>1. Compare(operator, v, target) =
              IF v[1] = "list" THEN Among(target, v[2]) ELSE <<target[2], v[2]>> \in PartOf
        BY <2>4, Zenon DEF Compare
      <3>2. (<<target[2], v[2]>> \in PartOf) \in BOOLEAN
        OBVIOUS
      <3> QED BY <2>1, <3>1, <3>2, Zenon
    <2>5. CASE operator = "exists"
      BY <2>1, <2>5, Zenon DEF Compare
    <2>6. CASE operator \notin {"eq", "neq", "in", "nin", "contains", "exists"}
      BY <1>6, <2>6 DEF Compare
    <2> QED BY <2>2, <2>3, <2>4, <2>5, <2>6
  <1> QED BY <1>2, <1>3, <1>4, <1>5, <1>6

LEMMA TruthsForms ==
  ASSUME NEW known, NEW of, NEW c
  PROVE  /\ Form[c].kind = "all" =>
               /\ TruthsBy(known, of, c) \subseteq BOOLEAN
               /\ TRUE \in TruthsBy(known, of, c) <=> \A part \in Form[c].parts : TRUE \in of[part]
               /\ FALSE \in TruthsBy(known, of, c) <=> \E part \in Form[c].parts : FALSE \in of[part]
         /\ Form[c].kind = "any" =>
               /\ TruthsBy(known, of, c) \subseteq BOOLEAN
               /\ TRUE \in TruthsBy(known, of, c) <=> \E part \in Form[c].parts : TRUE \in of[part]
               /\ FALSE \in TruthsBy(known, of, c) <=> \A part \in Form[c].parts : FALSE \in of[part]
         /\ Form[c].kind = "not" => TruthsBy(known, of, c) =
               {~b : b \in UNION {of[part] : part \in Form[c].parts}}
         /\ Form[c].kind = "test" => TruthsBy(known, of, c) =
               IF Sure(Form[c].operator, known[Form[c].fact], Target(Form[c]))
                 THEN {Compare(Form[c].operator, known[Form[c].fact], Target(Form[c]))}
                 ELSE BOOLEAN
         /\ Form[c].kind \notin {"all", "any", "not", "test"} => TruthsBy(known, of, c) = {TRUE}
  <1>1. Form[c].kind = "all" => TruthsBy(known, of, c) =
          {b \in BOOLEAN : IF b THEN \A part \in Form[c].parts : TRUE \in of[part]
                                ELSE \E part \in Form[c].parts : FALSE \in of[part]}
    BY Zenon DEF TruthsBy
  <1>2. Form[c].kind = "any" => TruthsBy(known, of, c) =
          {b \in BOOLEAN : IF b THEN \E part \in Form[c].parts : TRUE \in of[part]
                                ELSE \A part \in Form[c].parts : FALSE \in of[part]}
    BY Zenon DEF TruthsBy
  <1>3. Form[c].kind = "not" => TruthsBy(known, of, c) =
               {~b : b \in UNION {of[part] : part \in Form[c].parts}}
    BY Zenon DEF TruthsBy
  <1>4. Form[c].kind = "test" => TruthsBy(known, of, c) =
               IF Sure(Form[c].operator, known[Form[c].fact], Target(Form[c]))
                 THEN {Compare(Form[c].operator, known[Form[c].fact], Target(Form[c]))}
                 ELSE BOOLEAN
    BY Zenon DEF TruthsBy
  <1>5. Form[c].kind \notin {"all", "any", "not", "test"} => TruthsBy(known, of, c) = {TRUE}
    BY Zenon DEF TruthsBy
  <1> QED BY <1>1, <1>2, <1>3, <1>4, <1>5, Zenon

LEMMA TruthsType ==
  ASSUME NEW known, NEW of, NEW c,
         \A part \in Form[c].parts : of[part] \subseteq BOOLEAN
  PROVE  TruthsBy(known, of, c) \subseteq BOOLEAN
  <1>1. CASE Form[c].kind \in {"all", "any"}
    BY <1>1, TruthsForms, Zenon
  <1>3. CASE Form[c].kind = "not"
    <2>1. {~b : b \in UNION {of[part] : part \in Form[c].parts}} \subseteq BOOLEAN
      OBVIOUS
    <2> QED BY <1>3, <2>1, TruthsForms, Zenon
  <1>4. CASE Form[c].kind = "test"
    <2>1. TruthsBy(known, of, c) =
            IF Sure(Form[c].operator, known[Form[c].fact], Target(Form[c]))
              THEN {Compare(Form[c].operator, known[Form[c].fact], Target(Form[c]))}
              ELSE BOOLEAN
      BY <1>4, TruthsForms
    <2> HIDE DEF TruthsBy
    <2>2. Compare(Form[c].operator, known[Form[c].fact], Target(Form[c])) \in BOOLEAN
      BY CompareIsTruth
    <2> QED BY <2>1, <2>2
  <1>5. CASE Form[c].kind \notin {"all", "any", "not", "test"}
    BY <1>5, TruthsForms, Zenon
  <1> QED BY <1>1, <1>3, <1>4, <1>5

LEMMA TruthsLocal ==
  ASSUME NEW known, NEW f, NEW g, NEW c, \A part \in Form[c].parts : f[part] = g[part]
  PROVE  TruthsBy(known, f, c) = TruthsBy(known, g, c)
  <1> DEFINE tf == TruthsBy(known, f, c)
             tg == TruthsBy(known, g, c)
  <1>1. CASE Form[c].kind = "all"
    <2>1. /\ tf \subseteq BOOLEAN
          /\ TRUE \in tf <=> \A part \in Form[c].parts : TRUE \in f[part]
          /\ FALSE \in tf <=> \E part \in Form[c].parts : FALSE \in f[part]
      BY <1>1, TruthsForms
    <2>2. /\ tg \subseteq BOOLEAN
          /\ TRUE \in tg <=> \A part \in Form[c].parts : TRUE \in g[part]
          /\ FALSE \in tg <=> \E part \in Form[c].parts : FALSE \in g[part]
      BY <1>1, TruthsForms
    <2> HIDE DEF tf, tg
    <2>3. (TRUE \in tf <=> TRUE \in tg) /\ (FALSE \in tf <=> FALSE \in tg)
      BY <2>1, <2>2
    <2>4. \A b \in BOOLEAN : b \in tf <=> b \in tg
      BY <2>3
    <2>5. tf = tg
      BY <2>1, <2>2, <2>4
    <2> QED BY <2>5 DEF tf, tg
  <1>2. CASE Form[c].kind = "any"
    <2>1. /\ tf \subseteq BOOLEAN
          /\ TRUE \in tf <=> \E part \in Form[c].parts : TRUE \in f[part]
          /\ FALSE \in tf <=> \A part \in Form[c].parts : FALSE \in f[part]
      BY <1>2, TruthsForms
    <2>2. /\ tg \subseteq BOOLEAN
          /\ TRUE \in tg <=> \E part \in Form[c].parts : TRUE \in g[part]
          /\ FALSE \in tg <=> \A part \in Form[c].parts : FALSE \in g[part]
      BY <1>2, TruthsForms
    <2> HIDE DEF tf, tg
    <2>3. (TRUE \in tf <=> TRUE \in tg) /\ (FALSE \in tf <=> FALSE \in tg)
      BY <2>1, <2>2
    <2>4. \A b \in BOOLEAN : b \in tf <=> b \in tg
      BY <2>3
    <2>5. tf = tg
      BY <2>1, <2>2, <2>4
    <2> QED BY <2>5 DEF tf, tg
  <1>3. CASE Form[c].kind = "not"
    <2>1. {~b : b \in UNION {f[part] : part \in Form[c].parts}} = {~b : b \in UNION {g[part] : part \in Form[c].parts}}
      OBVIOUS
    <2> QED BY <1>3, <2>1, TruthsForms, Zenon
  <1>4. CASE Form[c].kind = "test"
    <2>1. tf = IF Sure(Form[c].operator, known[Form[c].fact], Target(Form[c]))
                 THEN {Compare(Form[c].operator, known[Form[c].fact], Target(Form[c]))}
                 ELSE BOOLEAN
      BY <1>4, TruthsForms
    <2>2. tg = IF Sure(Form[c].operator, known[Form[c].fact], Target(Form[c]))
                 THEN {Compare(Form[c].operator, known[Form[c].fact], Target(Form[c]))}
                 ELSE BOOLEAN
      BY <1>4, TruthsForms
    <2> QED BY <2>1, <2>2, Zenon
  <1>5. CASE Form[c].kind \notin {"all", "any", "not", "test"}
    BY <1>5, TruthsForms, Zenon
  <1> QED BY <1>1, <1>2, <1>3, <1>4, <1>5

LEMMA Told ==
  ASSUME ConditionsAssumption, NEW known
  PROVE  \A c \in Conditions : Truths(known)[c] = TruthsBy(known, Truths(known), c)
  <1> DEFINE V == SUBSET BOOLEAN
             B == [c \in Conditions |-> [of \in [Conditions -> V] |-> TruthsBy(known, of, c)]]
             Body(of) == [c \in Conditions |-> TruthsBy(known, of, c)]
  <1>1. \A c \in Conditions : \A of \in [Conditions -> V] : B[c][of] \in V
    <2> SUFFICES ASSUME NEW c \in Conditions, NEW of \in [Conditions -> V]
                 PROVE  TruthsBy(known, of, c) \subseteq BOOLEAN
      OBVIOUS
    <2>1. \A part \in Form[c].parts : of[part] \subseteq BOOLEAN
      BY PartsBelow
    <2> QED BY <2>1, TruthsType
  <1>2. ASSUME NEW c \in Conditions, NEW f \in [Conditions -> V], NEW g \in [Conditions -> V],
               \A part \in Form[c].parts : f[part] = g[part]
        PROVE  B[c][f] = B[c][g]
    <2>1. TruthsBy(known, f, c) = TruthsBy(known, g, c)
      BY <1>2, TruthsLocal
    <2> QED BY <2>1
  <1>3. \E of \in [Conditions -> V] : \A c \in Conditions : of[c] = B[c][of]
    <2> DEFINE Parts == [c \in Conditions |-> Form[c].parts]
    <2>1. V # {}
      OBVIOUS
    <2> HIDE DEF B, V
    <2>2. Nested(Conditions, Parts)
      BY PartsBelow DEF Nested
    <2>3. ByParts(Conditions, Parts, V, B)
      BY <1>1, <1>2 DEF ByParts
    <2> HIDE DEF Parts
    <2> QED BY <2>1, <2>2, <2>3, Recursion
  <1>4. \E of : of = Body(of)
    BY <1>3
  <1>5. Truths(known) = CHOOSE of : of = Body(of)
    BY Zenon DEF Truths, TruthsBy
  <1> HIDE DEF Body
  <1>6. Truths(known) = Body(Truths(known))
    BY <1>4, <1>5
  <1> QED BY <1>6 DEF Body

LEMMA Decided ==
  ASSUME ConditionsAssumption, NEW known,
         \A c \in Conditions : Form[c].kind = "test" => Numeric(known[Form[c].fact])
  PROVE  \A c \in Conditions : EvaluateCondition(known)[c] \in Truths(known)[c]
  <1> DEFINE Wrong == {c \in Conditions : EvaluateCondition(known)[c] \notin Truths(known)[c]}
  <1>1. SUFFICES ASSUME Wrong # {} PROVE FALSE
    OBVIOUS
  <1>2. PICK c \in Wrong : Form[c].parts \cap Wrong = {}
    BY <1>1, PartsBelow
  <1> DEFINE holds == EvaluateCondition(known)
             of    == Truths(known)
  <1>3. holds[c] = EvaluateBy(known, holds, c) /\ of[c] = TruthsBy(known, of, c)
    BY Evaluated, Told
  <1>4. \A part \in Form[c].parts : holds[part] \in BOOLEAN /\ holds[part] \in of[part]
    BY <1>2, Evaluated, PartsBelow
  <1>5. holds[c] \notin of[c] /\ holds[c] \in BOOLEAN
    BY <1>2, Evaluated
  <1> HIDE DEF holds, of
  <1>6. CASE Form[c].kind = "all"
    <2>1. holds[c] <=> \A part \in Form[c].parts : holds[part]
      BY <1>3, <1>6, EvaluateForms
    <2>2. /\ TRUE \in of[c] <=> \A part \in Form[c].parts : TRUE \in of[part]
          /\ FALSE \in of[c] <=> \E part \in Form[c].parts : FALSE \in of[part]
      <3> DEFINE t == TruthsBy(known, of, c)
      <3>1. /\ TRUE \in t <=> \A part \in Form[c].parts : TRUE \in of[part]
            /\ FALSE \in t <=> \E part \in Form[c].parts : FALSE \in of[part]
        BY <1>6, TruthsForms
      <3>2. of[c] = t
        BY <1>3
      <3> HIDE DEF t
      <3> QED BY <3>1, <3>2
    <2> QED BY <1>4, <1>5, <2>1, <2>2, Zenon
  <1>7. CASE Form[c].kind = "any"
    <2>1. holds[c] <=> \E part \in Form[c].parts : holds[part]
      BY <1>3, <1>7, EvaluateForms
    <2>2. /\ TRUE \in of[c] <=> \E part \in Form[c].parts : TRUE \in of[part]
          /\ FALSE \in of[c] <=> \A part \in Form[c].parts : FALSE \in of[part]
      <3> DEFINE t == TruthsBy(known, of, c)
      <3>1. /\ TRUE \in t <=> \E part \in Form[c].parts : TRUE \in of[part]
            /\ FALSE \in t <=> \A part \in Form[c].parts : FALSE \in of[part]
        BY <1>7, TruthsForms
      <3>2. of[c] = t
        BY <1>3
      <3> HIDE DEF t
      <3> QED BY <3>1, <3>2
    <2> QED BY <1>4, <1>5, <2>1, <2>2, Zenon
  <1>8. CASE Form[c].kind = "not"
    <2>1. holds[c] <=> \A part \in Form[c].parts : ~holds[part]
      BY <1>3, <1>8, EvaluateForms
    <2>2. of[c] = {~b : b \in UNION {of[part] : part \in Form[c].parts}}
      BY <1>3, <1>8, TruthsForms, Zenon
    <2>3. PICK part \in Form[c].parts : holds[c] <=> ~holds[part]
      <3>1. Form[c].parts # {}
        BY <1>8 DEF ConditionsAssumption
      <3> QED BY <1>4, <1>5, <2>1, <3>1
    <2> DEFINE some == UNION {of[p] : p \in Form[c].parts}
    <2>4. holds[part] \in some
      BY <1>4
    <2>5. of[c] = {~b : b \in some}
      BY <2>2
    <2> HIDE DEF some
    <2>6. CASE holds[part] = TRUE
      <3>1. FALSE \in of[c]
        BY <2>4, <2>5, <2>6
      <3> QED BY <1>5, <2>3, <2>6, <3>1
    <2>7. CASE holds[part] = FALSE
      <3>1. TRUE \in of[c]
        BY <2>4, <2>5, <2>7
      <3> QED BY <1>5, <2>3, <2>7, <3>1
    <2> QED BY <1>4, <2>6, <2>7
  <1>9. CASE Form[c].kind = "test"
    <2>1. holds[c] <=> Test(Form[c].operator, known[Form[c].fact], Target(Form[c]))
      BY <1>3, <1>9, EvaluateForms
    <2>2. of[c] = IF Sure(Form[c].operator, known[Form[c].fact], Target(Form[c]))
                    THEN {Compare(Form[c].operator, known[Form[c].fact], Target(Form[c]))}
                    ELSE BOOLEAN
      BY <1>3, <1>9, TruthsForms, Zenon
    <2>3. Numeric(known[Form[c].fact]) /\ Numeric(Target(Form[c]))
      BY <1>9 DEF ConditionsAssumption, Target
    <2>4. Sure(Form[c].operator, known[Form[c].fact], Target(Form[c])) =>
            (holds[c] <=> Compare(Form[c].operator, known[Form[c].fact], Target(Form[c])))
      BY <2>1, <2>3, TestAgrees
    <2> QED BY <1>5, <2>2, <2>4, CompareIsTruth
  <1>10. CASE Form[c].kind \notin {"all", "any", "not", "test"}
    <2>1. holds[c]
      BY <1>3, <1>10, EvaluateForms, Zenon
    <2>2. of[c] = {TRUE}
      BY <1>3, <1>10, TruthsForms, Zenon
    <2> QED BY <1>5, <2>1, <2>2
  <1> QED BY <1>6, <1>7, <1>8, <1>9, <1>10

\* Whatever is recorded of a project, the verdict of the rule engine on each rule is one
\* the rule can have of the recorded facts (evaluateCondition and buildFacts of
\* rule-engine.service.ts), for all conditions and in every state.
THEOREM RulesDecide ==
  ASSUME ProjectFactsAssumption, RulesAssumption
  PROVE  FactsSpec => []KnownFactsDecide
  <1>1. FactsTypeOK => KnownFactsDecide
    <2> SUFFICES ASSUME FactsTypeOK PROVE KnownFactsDecide
      OBVIOUS
    <2>1. \A v \in Recorded : Numeric(v)
      BY DEF RulesAssumption, Recorded, AnyValue, Absent, Null, Undefined, Numeric
    <2>2. \A k \in Keys : EngineFacts[k] \in Recorded
      BY DEF FactsTypeOK, EngineFacts, OrElse, ColumnOf, Recorded, Absent, Keys
    <2>3. \A c \in Conditions : Form[c].kind = "test" => Numeric(EngineFacts[Form[c].fact])
      BY <2>1, <2>2 DEF RulesAssumption
    <2>4. \A c \in Conditions : EvaluateCondition(EngineFacts)[c] \in Truths(EngineFacts)[c]
      BY <2>3, Decided DEF RulesAssumption
    <2> QED BY <2>4 DEF KnownFactsDecide, ProjectFactsAssumption
  <1> QED BY <1>1, TypeCorrect, PTL
=============================================================================
