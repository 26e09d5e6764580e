------------------------- MODULE RuleEngine_proofs -------------------------
(***************************************************************************)
(* Proofs about RuleEngine, for any rules, runs, resolvers and faults.     *)
(***************************************************************************)
EXTENDS RuleEngine, SequenceTheorems, TLAPS

(***************************************************************************)
(* Type correctness.                                                       *)
(***************************************************************************)
ResolverBound == \A v \in Resolvers : Resolving(v) => resolver[v].conflict \in ConflictIds

TypeInv == TypeOK /\ ResolverBound

LEMMA UnusedTypes ==
  /\ UnusedRun \in RunRecord /\ UnusedRun.pc = "unused" /\ UnusedRun.fetched = {}
  /\ UnusedResolver \in ResolverRecord /\ UnusedResolver.pc = "unused"
  /\ NoConflict \in ConflictRecord /\ NoConflict.status = "ABSENT"
  BY DEF UnusedRun, RunRecord, RunPc, Query, UnusedResolver, ResolverRecord, ResolverPc, Resolution,
         NoConflict, ConflictRecord, ConflictStatus

LEMMA HitsType ==
  ASSUME NEW rules \in SUBSET Rules, NEW disabled, NEW facts
  PROVE  Hits(rules, disabled, facts) \in SUBSET Rules
  BY DEF Hits

LEMMA DisabledType == TypeOK => Disabled \in SUBSET Rules
  BY DEF TypeOK, OverrideRecord, Disabled

LEMMA LatestType == TypeOK /\ models # <<>> => LatestRequirements \in ModelRecord
  <1> SUFFICES ASSUME TypeOK, models # <<>> PROVE models[Len(models)] \in ModelRecord
    BY DEF LatestRequirements
  <1>1. models \in Seq(ModelRecord)
    BY DEF TypeOK
  <1>2. Len(models) \in DOMAIN models
    BY <1>1
  <1> QED BY <1>1, <1>2, ElementOfSeq

LEMMA InitTypeInv == Init => TypeInv
  BY UnusedTypes DEF Init, TypeInv, TypeOK, ResolverBound, Resolving, EvaluationStatus

\* A run that moves on keeps its type when what it learns has the right one.
LEMMA RunType ==
  ASSUME TypeOK, NEW r \in Runs, NEW STATE c, c \in RunRecord, run' = [run EXCEPT ![r] = c]
  PROVE  run' \in [Runs -> RunRecord]
  BY DEF TypeOK

LEMMA RunGotoType ==
  ASSUME TypeOK, NEW r \in Runs, NEW pc \in RunPc, run' = [run EXCEPT ![r].pc = pc]
  PROVE  run' \in [Runs -> RunRecord]
  <1> DEFINE c == [run[r] EXCEPT !.pc = pc]
  <1>1. run[r] \in RunRecord
    BY DEF TypeOK
  <1>2. c \in RunRecord
    BY <1>1 DEF RunRecord
  <1>3. run' = [run EXCEPT ![r] = c]
    OBVIOUS
  <1> HIDE DEF c
  <1> QED BY <1>2, <1>3, RunType

\* The transaction of a run.
LEMMA WriteType == ASSUME TypeInv, NEW r \in Runs, Write(r) PROVE TypeInv'
  <1> DEFINE hits == Hits(run[r].rules, run[r].disabled, run[r].facts)
             m == [run |-> r, version |-> run[r].current + 1, hits |-> hits]
  <1>1. run[r].rules \in SUBSET Rules /\ run[r].current \in Nat
    BY DEF TypeInv, TypeOK, RunRecord
  <1>2. m \in ModelRecord
    BY <1>1, HitsType DEF ModelRecord
  <1>3. models' \in Seq(ModelRecord)
    BY <1>2, AppendProperties DEF Write, TypeInv, TypeOK
  <1>4. conflict' \in [ConflictIds -> ConflictRecord]
    BY DEF Write, TypeInv, TypeOK, ConflictRecord, ConflictStatus
  <1>5. run' \in [Runs -> RunRecord]
    BY DEF Write, TypeInv, TypeOK, RunRecord, RunPc
  <1>6. eval' \in [Runs -> EvaluationStatus]
    BY DEF Write, TypeInv, TypeOK, EvaluationStatus
  <1> QED BY <1>3, <1>4, <1>5, <1>6 DEF Write, TypeInv, TypeOK, ResolverBound, Resolving

\* The transaction of a resolver.
LEMMA ResolveType == ASSUME TypeInv, NEW v \in Resolvers, Resolve(v) PROVE TypeInv'
  <1> DEFINE c == resolver[v].conflict
             loser == IF resolver[v].resolution = "OVERRIDE_A" THEN c[2] ELSE c[3]
  <1>1. c \in ConflictIds
    BY DEF Resolve, TypeInv, ResolverBound
  <1>2. loser \in Rules
    BY <1>1 DEF ConflictIds
  <1>3. conflict' \in [ConflictIds -> ConflictRecord]
    <2>1. CASE resolver[v].resolution = "IGNORE"
      BY <1>1, <2>1 DEF Resolve, TypeInv, TypeOK, ConflictRecord, ConflictStatus
    <2>2. CASE resolver[v].resolution # "IGNORE"
      <3>1. [status |-> "RESOLVED", by |-> v] \in ConflictRecord
        BY DEF ConflictRecord, ConflictStatus
      <3>2. conflict' = [conflict EXCEPT ![c] = [status |-> "RESOLVED", by |-> v]]
        BY <2>2 DEF Resolve
      <3> QED BY <3>1, <3>2 DEF TypeInv, TypeOK
    <2> QED BY <2>1, <2>2
  <1>4. overrides' \subseteq OverrideRecord
    BY <1>1, <1>2 DEF Resolve, TypeInv, TypeOK, OverrideRecord
  <1>5. resolver' \in [Resolvers -> ResolverRecord]
    BY DEF Resolve, TypeInv, TypeOK, ResolverRecord, ResolverPc
  <1>6. ResolverBound'
    BY DEF Resolve, TypeInv, TypeOK, ResolverBound, Resolving, ResolverRecord
  <1> QED BY <1>3, <1>4, <1>5, <1>6 DEF Resolve, TypeInv, TypeOK

LEMMA TypeInvStep == TypeInv /\ [Next]_vars => TypeInv'
  <1> SUFFICES ASSUME TypeInv, [Next]_vars PROVE TypeInv'
    OBVIOUS
  <1> USE DEF tables
  <1>0. \A r \in Runs : run[r] \in RunRecord
    BY DEF TypeInv, TypeOK
  <1>d. Disabled \in SUBSET Rules
    BY DisabledType DEF TypeInv
  <1>1. ASSUME NEW r \in Runs, NEW given \in Facts \cup {NoFact}, NEW picked \in Filters,
               ReadProject(r, given, picked)
        PROVE  TypeInv'
    <2>1. picked \in SUBSET Rules
      BY RuleEngineAssumption
    <2>f. (IF given = NoFact THEN fact ELSE given) \in Facts
      BY DEF TypeInv, TypeOK
    <2>2. run' \in [Runs -> RunRecord]
      <3> DEFINE c == [run[r] EXCEPT !.pc = "create", !.picked = picked,
                                 !.facts = IF given = NoFact THEN fact ELSE given]
      <3>a. c \in RunRecord
        BY <2>1, <2>f, <1>0 DEF RunRecord, RunPc, Query
      <3>b. run' = [run EXCEPT ![r] = c]
        BY <1>1 DEF ReadProject
      <3> HIDE DEF c
      <3> QED BY <3>a, <3>b, RunType DEF TypeInv
    <2> QED BY <1>1, <2>2 DEF ReadProject, TypeInv, TypeOK, ResolverBound, Resolving
  <1>2. ASSUME NEW r \in Runs, CreateEvaluation(r) PROVE TypeInv'
    <2>1. run' \in [Runs -> RunRecord]
      <3> DEFINE c == [run[r] EXCEPT !.pc = "fetch", !.barred = Disabled]
      <3>a. c \in RunRecord
        BY <1>d, <1>0 DEF RunRecord, RunPc, Query
      <3>b. run' = [run EXCEPT ![r] = c]
        BY <1>2 DEF CreateEvaluation
      <3> HIDE DEF c
      <3> QED BY <3>a, <3>b, RunType DEF TypeInv
    <2>2. started' \in Seq(Runs)
      BY <1>2, AppendProperties DEF CreateEvaluation, TypeInv, TypeOK
    <2>3. eval' \in [Runs -> EvaluationStatus]
      BY <1>2 DEF CreateEvaluation, TypeInv, TypeOK, EvaluationStatus
    <2> QED BY <1>2, <2>1, <2>2, <2>3
            DEF CreateEvaluation, TypeInv, TypeOK, ResolverBound, Resolving
  <1>3. ASSUME NEW r \in Runs,
               FetchRuleSets(r) \/ FetchOverrides(r) \/ Evaluate(r) \/ StepFails(r) \/ RunLost(r)
        PROVE  TypeInv'
    <2>1. run' \in [Runs -> RunRecord]
      <3>1. CASE FetchRuleSets(r)
        <4> DEFINE c == [run[r] EXCEPT !.fetched = @ \cup {"ruleSets"}, !.rules = run[r].picked]
        <4>a. c \in RunRecord
          BY <1>0 DEF RunRecord, RunPc, Query
        <4>b. run' = [run EXCEPT ![r] = c]
          BY <3>1 DEF FetchRuleSets
        <4> HIDE DEF c
        <4> QED BY <4>a, <4>b, RunType DEF TypeInv
      <3>2. CASE FetchOverrides(r)
        <4> DEFINE c == [run[r] EXCEPT !.fetched = @ \cup {"overrides"}, !.disabled = Disabled]
        <4>a. c \in RunRecord
          BY <1>d, <1>0 DEF RunRecord, RunPc, Query
        <4>b. run' = [run EXCEPT ![r] = c]
          BY <3>2 DEF FetchOverrides
        <4> HIDE DEF c
        <4> QED BY <4>a, <4>b, RunType DEF TypeInv
      <3>3. CASE Evaluate(r) \/ StepFails(r) \/ RunLost(r)
        <4>1. PICK pc \in {"write", "catch", "lost"} : run' = [run EXCEPT ![r].pc = pc]
          BY <3>3 DEF Evaluate, StepFails, RunLost
        <4> QED BY <4>1, RunGotoType DEF TypeInv, RunPc
      <3> QED BY <1>3, <3>1, <3>2, <3>3
    <2>2. UNCHANGED <<fact, tables, resolver>>
      BY <1>3 DEF FetchRuleSets, FetchOverrides, Evaluate, StepFails, RunLost
    <2> QED BY <2>1, <2>2 DEF TypeInv, TypeOK, ResolverBound, Resolving
  <1>4. ASSUME NEW r \in Runs, FetchModel(r) PROVE TypeInv'
    <2> DEFINE n == IF models = <<>> THEN 0 ELSE LatestRequirements.version
    <2>1. n \in Nat
      BY LatestType DEF TypeInv, ModelRecord
    <2> HIDE DEF n
    <2>2. run' = [run EXCEPT ![r].fetched = @ \cup {"currentModel"}, ![r].current = n]
      BY <1>4 DEF FetchModel, n
    <2>3. run' \in [Runs -> RunRecord]
      BY <2>1, <2>2 DEF TypeInv, TypeOK, RunRecord, Query
    <2> QED BY <1>4, <2>3 DEF FetchModel, TypeInv, TypeOK, ResolverBound, Resolving
  <1>5. ASSUME NEW r \in Runs, Catch(r) PROVE TypeInv'
    <2>1. run' \in [Runs -> RunRecord] /\ eval' \in [Runs -> EvaluationStatus]
      BY <1>5 DEF Catch, TypeInv, TypeOK, RunRecord, RunPc, EvaluationStatus
    <2> QED BY <1>5, <2>1 DEF Catch, TypeInv, TypeOK, ResolverBound, Resolving
  <1>6. ASSUME NEW v \in Resolvers, NEW c \in ConflictIds, NEW res \in Resolution,
               ReadConflict(v, c, res)
        PROVE  TypeInv'
    <2> DEFINE w == [pc |-> IF conflict[c].status = "RESOLVED" THEN "done" ELSE "resolve",
                     conflict |-> c, resolution |-> res]
    <2>1. w \in ResolverRecord /\ w.conflict = c
      BY DEF ResolverRecord, ResolverPc
    <2>2. resolver' = [resolver EXCEPT ![v] = w]
      BY <1>6 DEF ReadConflict
    <2> HIDE DEF w
    <2>3. resolver' \in [Resolvers -> ResolverRecord] /\ ResolverBound'
      BY <2>1, <2>2 DEF TypeInv, TypeOK, ResolverBound, Resolving
    <2> QED BY <1>6, <2>3 DEF ReadConflict, TypeInv, TypeOK
  <1>7. ASSUME NEW v \in Resolvers, ResolveFails(v) PROVE TypeInv'
    <2>1. resolver' \in [Resolvers -> ResolverRecord]
      BY <1>7 DEF ResolveFails, TypeInv, TypeOK, ResolverRecord, ResolverPc
    <2>2. ResolverBound'
      BY <1>7 DEF ResolveFails, TypeInv, TypeOK, ResolverBound, Resolving, ResolverRecord
    <2> QED BY <1>7, <2>1, <2>2 DEF ResolveFails, TypeInv, TypeOK
  <1>8. ASSUME NEW f \in Facts, ChangeFact(f) PROVE TypeInv'
    BY <1>8 DEF ChangeFact, TypeInv, TypeOK, ResolverBound, Resolving
  <1>9. CASE UNCHANGED vars
    BY <1>9 DEF vars, TypeInv, TypeOK, ResolverBound, Resolving
  <1> QED BY <1>1, <1>2, <1>3, <1>4, <1>5, <1>6, <1>7, <1>8, <1>9, WriteType, ResolveType
          DEF Next, Advance

\* Every row and call of the rule engine keeps its type in every reachable state.
THEOREM TypeCorrect == SafeSpec => []TypeOK
  <1>1. TypeInv => TypeOK
    BY DEF TypeInv
  <1> QED BY InitTypeInv, TypeInvStep, <1>1, PTL DEF SafeSpec

(***************************************************************************)
(* EvaluationMatchesModel.  It is inductive together with what each place  *)
(* a run is at says about its evaluation: a run that is about to write has *)
(* an evaluation that still says RUNNING, so it writes its only model.     *)
(***************************************************************************)
PcStatus(r) ==
    /\ run[r].pc \in {"unused", "create"} => eval[r] = "ABSENT"
    /\ run[r].pc \in {"fetch", "write", "catch"} => eval[r] = "RUNNING"
    /\ run[r].pc = "done" => eval[r] = "COMPLETED"
    /\ run[r].pc = "failed" => eval[r] = "FAILED"
    /\ run[r].pc = "lost" => eval[r] # "COMPLETED"

MatchInv == (\A r \in Runs : PcStatus(r)) /\ EvaluationMatchesModel

\* A step of a run leaves the place of every other run as it was.
LEMMA RunOthers ==
  ASSUME TypeOK, NEW r \in Runs, Advance(r)
  PROVE  \A q \in Runs : q # r => run'[q] = run[q]
  BY DEF TypeOK, Advance, CreateEvaluation, FetchRuleSets, FetchOverrides, FetchModel, Evaluate,
         Write, StepFails, Catch, RunLost

LEMMA InitMatch == Init => MatchInv
  BY UnusedTypes DEF Init, MatchInv, PcStatus, EvaluationMatchesModel, ModelsOf

LEMMA MatchStep == TypeInv /\ MatchInv /\ [Next]_vars => MatchInv'
  <1> SUFFICES ASSUME TypeInv, MatchInv, [Next]_vars PROVE MatchInv'
    OBVIOUS
  <1> USE DEF tables
  <1>1. \A r \in Runs : run[r] \in RunRecord
    BY DEF TypeInv, TypeOK
  <1>2. ASSUME UNCHANGED <<eval, models>>, \A q \in Runs : PcStatus(q)' PROVE MatchInv'
    BY <1>2 DEF MatchInv, EvaluationMatchesModel, ModelsOf
  <1>3. ASSUME NEW r \in Runs, Advance(r), UNCHANGED <<eval, models>>, PcStatus(r)'
        PROVE  MatchInv'
    <2>1. \A q \in Runs : q # r => PcStatus(q)'
      BY <1>3, RunOthers DEF TypeInv, MatchInv, PcStatus
    <2> QED BY <1>2, <1>3, <2>1
  <1>4. ASSUME NEW r \in Runs, NEW given, NEW picked, ReadProject(r, given, picked)
        PROVE  MatchInv'
    <2>1. /\ run[r].pc = "unused" /\ UNCHANGED tables
          /\ \A q \in Runs : run'[q].pc = IF q = r THEN "create" ELSE run[q].pc
      BY <1>4 DEF ReadProject, TypeInv, TypeOK, RunRecord
    <2> QED BY <1>2, <2>1 DEF MatchInv, PcStatus
  <1>5. ASSUME NEW r \in Runs,
               FetchRuleSets(r) \/ FetchOverrides(r) \/ FetchModel(r) \/ Evaluate(r) \/ StepFails(r)
        PROVE  MatchInv'
    <2>1. /\ UNCHANGED tables /\ Advance(r)
          /\ run[r].pc \in {"fetch", "write"}
      BY <1>5 DEF FetchRuleSets, FetchOverrides, FetchModel, Evaluate, StepFails, Advance
    <2>2. run'[r].pc \in {"fetch", "write", "catch"}
      <3>1. CASE FetchRuleSets(r)
        BY <1>1, <2>1, <3>1 DEF FetchRuleSets, RunRecord, TypeInv, TypeOK
      <3>2. CASE FetchOverrides(r)
        BY <1>1, <2>1, <3>2 DEF FetchOverrides, RunRecord, TypeInv, TypeOK
      <3>3. CASE FetchModel(r)
        BY <1>1, <2>1, <3>3 DEF FetchModel, RunRecord, TypeInv, TypeOK
      <3>4. CASE Evaluate(r) \/ StepFails(r)
        BY <1>1, <2>1, <3>4 DEF Evaluate, StepFails, RunRecord, TypeInv, TypeOK
      <3> QED BY <1>5, <3>1, <3>2, <3>3, <3>4
    <2> QED BY <1>3, <2>1, <2>2 DEF MatchInv, PcStatus
  <1>6. ASSUME NEW r \in Runs, RunLost(r) PROVE MatchInv'
    <2>1. UNCHANGED tables /\ Advance(r) /\ run[r].pc \in RunOpen
      BY <1>6 DEF RunLost, Advance, InProgress, RunOpen
    <2>2. run'[r].pc = "lost"
      BY <1>1, <1>6 DEF RunLost, RunRecord, TypeInv, TypeOK
    <2> QED BY <1>3, <2>1, <2>2 DEF MatchInv, PcStatus, RunOpen
  <1>7. ASSUME NEW r \in Runs, CreateEvaluation(r) \/ Catch(r) PROVE MatchInv'
    <2>1. UNCHANGED models /\ Advance(r)
      BY <1>7 DEF CreateEvaluation, Catch, Advance
    <2>2. /\ \A q \in Runs : q # r => eval'[q] = eval[q]
          /\ eval[r] # "COMPLETED" /\ eval'[r] # "COMPLETED"
          /\ PcStatus(r)'
      <3>1. CASE CreateEvaluation(r)
        BY <3>1 DEF CreateEvaluation, MatchInv, PcStatus, TypeInv, TypeOK, RunRecord
      <3>2. CASE Catch(r)
        BY <3>2 DEF Catch, MatchInv, PcStatus, TypeInv, TypeOK, RunRecord
      <3> QED BY <1>7, <3>1, <3>2
    <2>3. \A q \in Runs : PcStatus(q)'
      BY <2>1, <2>2, RunOthers DEF TypeInv, MatchInv, PcStatus
    <2> QED BY <2>1, <2>2, <2>3 DEF MatchInv, EvaluationMatchesModel, ModelsOf
  <1>8. ASSUME NEW r \in Runs, Write(r) PROVE MatchInv'
    <2>1. PICK m : models' = Append(models, m) /\ m.run = r
      BY <1>8 DEF Write
    <2>2. /\ eval' = [eval EXCEPT ![r] = "COMPLETED"] /\ Advance(r)
          /\ run[r].pc = "write" /\ run' = [run EXCEPT ![r].pc = "done"]
      BY <1>8 DEF Write, Advance
    <2>3. /\ \A q \in Runs : eval'[q] = IF q = r THEN "COMPLETED" ELSE eval[q]
          /\ eval[r] = "RUNNING"
      BY <2>2 DEF TypeInv, TypeOK, MatchInv, PcStatus
    <2>4. \A q \in Runs : PcStatus(q)'
      BY <2>2, <2>3, RunOthers DEF TypeInv, TypeOK, MatchInv, PcStatus, RunRecord
    <2>5. models \in Seq(ModelRecord) /\ Len(models) \in Nat
      BY DEF TypeInv, TypeOK
    <2>6. /\ DOMAIN models = 1..Len(models) /\ DOMAIN models' = 1..(Len(models) + 1)
          /\ \A k \in 1..Len(models) : models'[k] = models[k]
          /\ models'[Len(models) + 1] = m
      BY <2>1, <2>5
    <2>7. \A k \in 1..Len(models) : models[k].run # r
      BY <2>3, <2>6 DEF MatchInv, EvaluationMatchesModel, ModelsOf
    <2>8. \A k, n \in DOMAIN models' : models'[k].run = models'[n].run => k = n
      BY <2>1, <2>5, <2>6, <2>7 DEF MatchInv, EvaluationMatchesModel
    <2>9. \A q \in Runs : (\E k \in DOMAIN models' : models'[k].run = q)
                          <=> (q = r \/ \E k \in DOMAIN models : models[k].run = q)
      BY <2>1, <2>5, <2>6
    <2>10. \A q \in Runs : eval'[q] = "COMPLETED" <=> \E k \in DOMAIN models' : models'[k].run = q
      BY <2>3, <2>9 DEF MatchInv, EvaluationMatchesModel, ModelsOf
    <2> QED BY <2>4, <2>8, <2>10 DEF MatchInv, EvaluationMatchesModel, ModelsOf
  <1>9. ASSUME UNCHANGED <<eval, models, run>> PROVE MatchInv'
    BY <1>2, <1>9 DEF MatchInv, PcStatus
  <1>10. ASSUME NEW v \in Resolvers, NEW c \in ConflictIds, NEW res \in Resolution,
                ReadConflict(v, c, res) \/ Resolve(v) \/ ResolveFails(v)
         PROVE  MatchInv'
    <2>1. UNCHANGED <<eval, models, run>>
      BY <1>10 DEF ReadConflict, Resolve, ResolveFails
    <2> QED BY <1>9, <2>1
  <1>11. ASSUME NEW f, ChangeFact(f) PROVE MatchInv'
    BY <1>9, <1>11 DEF ChangeFact
  <1>12. CASE UNCHANGED vars
    BY <1>9, <1>12 DEF vars
  <1>13. ASSUME NEW v \in Resolvers, Resolve(v) \/ ResolveFails(v) PROVE MatchInv'
    <2>1. UNCHANGED <<eval, models, run>>
      BY <1>13 DEF Resolve, ResolveFails
    <2> QED BY <1>9, <2>1
  <1> QED BY <1>4, <1>5, <1>6, <1>7, <1>8, <1>10, <1>11, <1>12, <1>13 DEF Next, Advance

\* However runs overlap, throw or die, COMPLETED means exactly one requirements model.
THEOREM CompletedHasModel == SafeSpec => []EvaluationMatchesModel
  <1> DEFINE Inv == TypeInv /\ MatchInv
  <1>1. Init => Inv
    BY InitTypeInv, InitMatch
  <1>2. Inv /\ [Next]_vars => Inv'
    BY TypeInvStep, MatchStep
  <1>3. Inv => EvaluationMatchesModel
    BY DEF MatchInv
  <1> QED BY <1>1, <1>2, <1>3, PTL DEF SafeSpec

(***************************************************************************)
(* DisabledStaysOut.  A run that holds the overrides holds at least those  *)
(* that were there when its evaluation was created: overrides are never    *)
(* deleted, and they are read after the evaluation has been created.  And  *)
(* what an evaluation with a model was barred from no longer changes.      *)
(***************************************************************************)
Barred(r) ==
    /\ run[r].pc \in {"unused", "create"} => run[r].fetched = {}
    /\ run[r].pc = "write" => run[r].fetched = Query
    /\ run[r].barred \subseteq Disabled
    /\ "overrides" \in run[r].fetched => run[r].barred \subseteq run[r].disabled

BarredInv == (\A r \in Runs : Barred(r)) /\ DisabledStaysOut

LEMMA InitBarred == Init => BarredInv
  BY UnusedTypes DEF Init, BarredInv, Barred, DisabledStaysOut, UnusedRun

\* A model belongs to a run that has written it.
LEMMA WritersDone ==
  ASSUME TypeInv, MatchInv, NEW k \in DOMAIN models
  PROVE  models[k].run \in Runs /\ eval[models[k].run] = "COMPLETED"
  <1>1. models[k] \in ModelRecord
    BY ElementOfSeq DEF TypeInv, TypeOK
  <1> QED BY <1>1 DEF ModelRecord, MatchInv, EvaluationMatchesModel, ModelsOf

LEMMA BarredStep == TypeInv /\ MatchInv /\ BarredInv /\ [Next]_vars => BarredInv'
  <1> SUFFICES ASSUME TypeInv, MatchInv, BarredInv, [Next]_vars PROVE BarredInv'
    OBVIOUS
  <1> USE DEF tables
  <1>0. \A r \in Runs : run[r] \in RunRecord /\ Barred(r)
    BY DEF TypeInv, TypeOK, BarredInv
  \* A call keeps the models, adds no rule to what written runs were barred from.
  <1>1. ASSUME UNCHANGED models, \A q \in Runs : Barred(q)',
               \A q \in Runs : eval[q] = "COMPLETED" => run'[q].barred = run[q].barred
        PROVE  BarredInv'
    <2>1. \A k \in DOMAIN models : run'[models[k].run].barred = run[models[k].run].barred
      BY <1>1, WritersDone
    <2> QED BY <1>1, <2>1 DEF BarredInv, DisabledStaysOut
  <1>2. ASSUME NEW r \in Runs, NEW STATE c, run' = [run EXCEPT ![r] = c],
               UNCHANGED <<models, overrides>>, Barred(r)',
               eval[r] = "COMPLETED" => c.barred = run[r].barred
        PROVE  BarredInv'
    <2>1. run'[r] = c /\ \A q \in Runs : q # r => run'[q] = run[q]
      BY <1>2 DEF TypeInv, TypeOK
    <2>2. \A q \in Runs : q # r => Barred(q)'
      BY <1>0, <1>2, <2>1 DEF Barred, Disabled
    <2> QED BY <1>1, <1>2, <2>1, <2>2
  \* A step that changes nothing of the run but where it is.
  <1>3. ASSUME NEW r \in Runs, NEW pc \in RunPc \ {"unused", "create"},
               run' = [run EXCEPT ![r].pc = pc], UNCHANGED <<models, overrides>>,
               pc = "write" => run[r].fetched = Query
        PROVE  BarredInv'
    <2> DEFINE c == [run[r] EXCEPT !.pc = pc]
    <2>1. /\ run' = [run EXCEPT ![r] = c] /\ c.pc = pc /\ c.fetched = run[r].fetched
          /\ c.barred = run[r].barred /\ c.disabled = run[r].disabled
      BY <1>0, <1>3 DEF RunRecord
    <2> HIDE DEF c
    <2>2. run'[r] = c
      BY <2>1 DEF TypeInv, TypeOK
    <2>3. Barred(r)'
      BY <1>0, <1>3, <2>1, <2>2 DEF Barred, Disabled
    <2> QED BY <1>2, <1>3, <2>1, <2>3
  <1>4. ASSUME NEW r \in Runs, NEW given, NEW picked, ReadProject(r, given, picked)
        PROVE  BarredInv'
    <2> DEFINE c == [run[r] EXCEPT !.pc = "create", !.picked = picked,
                               !.facts = IF given = NoFact THEN fact ELSE given]
    <2>1. /\ run' = [run EXCEPT ![r] = c] /\ run[r].pc = "unused" /\ c.pc = "create"
          /\ c.fetched = run[r].fetched /\ c.barred = run[r].barred
          /\ c.disabled = run[r].disabled
      BY <1>0, <1>4 DEF ReadProject, RunRecord
    <2> HIDE DEF c
    <2>2. run'[r] = c
      BY <2>1 DEF TypeInv, TypeOK
    <2>3. Barred(r)'
      BY <1>0, <1>4, <2>1, <2>2 DEF ReadProject, Barred, Disabled
    <2> QED BY <1>2, <1>4, <2>1, <2>3 DEF ReadProject
  <1>5. ASSUME NEW r \in Runs, CreateEvaluation(r) PROVE BarredInv'
    <2> DEFINE c == [run[r] EXCEPT !.pc = "fetch", !.barred = Disabled]
    <2>1. /\ run' = [run EXCEPT ![r] = c] /\ run[r].pc = "create" /\ c.pc = "fetch"
          /\ c.fetched = run[r].fetched /\ c.barred = Disabled
      BY <1>0, <1>5 DEF CreateEvaluation, RunRecord
    <2> HIDE DEF c
    <2>2. run'[r] = c /\ Disabled' = Disabled
      BY <1>5, <2>1 DEF CreateEvaluation, TypeInv, TypeOK, Disabled
    <2>3. Barred(r)'
      BY <1>0, <2>1, <2>2 DEF Barred
    <2>4. eval[r] # "COMPLETED"
      BY <2>1 DEF MatchInv, PcStatus
    <2> QED BY <1>2, <1>5, <2>1, <2>3, <2>4 DEF CreateEvaluation
  <1>6. ASSUME NEW r \in Runs, FetchRuleSets(r) \/ FetchOverrides(r) \/ FetchModel(r)
        PROVE  BarredInv'
    <2>1. /\ run[r].pc = "fetch" /\ UNCHANGED tables
          /\ \A q \in Runs : q # r => run'[q] = run[q]
      BY <1>6 DEF FetchRuleSets, FetchOverrides, FetchModel, TypeInv, TypeOK
    <2>2. /\ run'[r].pc = "fetch" /\ run'[r].barred = run[r].barred
          /\ "overrides" \in run'[r].fetched =>
               \/ run'[r].disabled = Disabled
               \/ /\ "overrides" \in run[r].fetched
                  /\ run'[r].disabled = run[r].disabled
      <3>1. CASE FetchRuleSets(r)
        BY <1>0, <3>1 DEF FetchRuleSets, RunRecord, TypeInv, TypeOK
      <3>2. CASE FetchOverrides(r)
        BY <1>0, <3>2 DEF FetchOverrides, RunRecord, TypeInv, TypeOK
      <3>3. CASE FetchModel(r)
        BY <1>0, <3>3 DEF FetchModel, RunRecord, TypeInv, TypeOK
      <3> QED BY <1>6, <3>1, <3>2, <3>3
    <2>3. Disabled' = Disabled
      BY <2>1 DEF Disabled
    <2>4. Barred(r)'
      BY <1>0, <2>2, <2>3 DEF Barred
    <2>5. \A q \in Runs : q # r => Barred(q)'
      BY <1>0, <2>1, <2>3 DEF Barred
    <2> QED BY <1>1, <2>1, <2>2, <2>4, <2>5
  <1>7. ASSUME NEW r \in Runs, Evaluate(r) \/ StepFails(r) \/ Catch(r) \/ RunLost(r)
        PROVE  BarredInv'
    <2>1. PICK pc \in {"write", "catch", "failed", "lost"} :
            run' = [run EXCEPT ![r].pc = pc] /\ (pc = "write" => run[r].fetched = Query)
      BY <1>7 DEF Evaluate, StepFails, Catch, RunLost
    <2> QED BY <1>3, <1>7, <2>1 DEF RunPc, Evaluate, StepFails, Catch, RunLost
  <1>8. ASSUME NEW r \in Runs, Write(r) PROVE BarredInv'
    <2> DEFINE hits == Hits(run[r].rules, run[r].disabled, run[r].facts)
               m == [run |-> r, version |-> run[r].current + 1, hits |-> hits]
    <2>1. models' = Append(models, m) /\ m.run = r /\ m.hits = hits
      BY <1>8 DEF Write
    <2>2. /\ run[r].pc = "write" /\ run' = [run EXCEPT ![r].pc = "done"]
          /\ UNCHANGED overrides
      BY <1>8 DEF Write
    <2>3. hits \cap run[r].barred = {}
      BY <1>0, <2>2 DEF Barred, Query, Hits
    <2> HIDE DEF m, hits
    <2>4. \A q \in Runs : /\ run'[q].barred = run[q].barred /\ run'[q].fetched = run[q].fetched
                          /\ run'[q].disabled = run[q].disabled
                          /\ run'[q].pc = IF q = r THEN "done" ELSE run[q].pc
      BY <1>0, <2>2 DEF TypeInv, TypeOK, RunRecord
    <2>5. \A q \in Runs : Barred(q)'
      BY <1>0, <2>2, <2>4 DEF Barred, Disabled
    <2>6. models \in Seq(ModelRecord) /\ Len(models) \in Nat
      BY DEF TypeInv, TypeOK
    <2>7. /\ DOMAIN models = 1..Len(models) /\ DOMAIN models' = 1..(Len(models) + 1)
          /\ \A k \in 1..Len(models) : models'[k] = models[k]
          /\ models'[Len(models) + 1] = m
      BY <2>1, <2>6
    <2>8. ASSUME NEW k \in DOMAIN models'
          PROVE  models'[k].hits \cap run'[models'[k].run].barred = {}
      <3>1. CASE k \in 1..Len(models)
        <4>1. models'[k] = models[k] /\ models[k].run \in Runs
          BY <2>7, <3>1, WritersDone
        <4> QED BY <2>4, <2>7, <3>1, <4>1 DEF BarredInv, DisabledStaysOut
      <3>2. CASE k = Len(models) + 1
        BY <2>1, <2>3, <2>4, <2>7, <3>2
      <3> QED BY <2>6, <2>7, <3>1, <3>2
    <2> QED BY <2>5, <2>8 DEF BarredInv, DisabledStaysOut
  <1>9. ASSUME UNCHANGED <<models, run>>, overrides \subseteq overrides' PROVE BarredInv'
    <2>1. Disabled \subseteq Disabled'
      BY <1>9 DEF Disabled
    <2>2. \A q \in Runs : Barred(q)'
      BY <1>0, <1>9, <2>1 DEF Barred
    <2> QED BY <1>1, <1>9, <2>2
  <1>10. ASSUME NEW v \in Resolvers, Resolve(v) \/ ResolveFails(v) PROVE BarredInv'
    <2>1. UNCHANGED <<models, run>> /\ overrides \subseteq overrides'
      BY <1>10 DEF Resolve, ResolveFails
    <2> QED BY <1>9, <2>1
  <1>11. ASSUME NEW v \in Resolvers, NEW c \in ConflictIds, NEW res \in Resolution,
                ReadConflict(v, c, res)
         PROVE  BarredInv'
    BY <1>9, <1>11 DEF ReadConflict
  <1>12. ASSUME NEW f, ChangeFact(f) PROVE BarredInv'
    BY <1>9, <1>12 DEF ChangeFact
  <1>13. CASE UNCHANGED vars
    BY <1>9, <1>13 DEF vars
  <1> QED BY <1>4, <1>5, <1>6, <1>7, <1>8, <1>10, <1>11, <1>12, <1>13 DEF Next, Advance

\* However runs and resolvers overlap and fail, a rule that an override has disabled is
\* not applied by any evaluation that was created afterwards.
THEOREM DisabledForGood == SafeSpec => []DisabledStaysOut
  <1> DEFINE Inv == TypeInv /\ MatchInv /\ BarredInv
  <1>1. Init => Inv
    BY InitTypeInv, InitMatch, InitBarred
  <1>2. Inv /\ [Next]_vars => Inv'
    BY TypeInvStep, MatchStep, BarredStep
  <1>3. Inv => DisabledStaysOut
    BY DEF BarredInv
  <1> QED BY <1>1, <1>2, <1>3, PTL DEF SafeSpec

(***************************************************************************)
(* ClashesReported.  A conflict's row never goes, and is written with the  *)
(* model it belongs to; a resolver holds a conflict that has a row.        *)
(***************************************************************************)
ClashInv ==
    /\ ClashesReported
    /\ \A v \in Resolvers : Resolving(v) => conflict[resolver[v].conflict].status # "ABSENT"

\* Two rules that clash are a pair of the group they split.
LEMMA ClashPairs ==
  ASSUME NEW hits \in SUBSET Rules, NEW a \in hits, NEW b \in hits, Clash(a, b)
  PROVE  <<a, b>> \in ConflictPairs(hits)
  <1>1. SplitGroup(hits, ConflictKey[a])
    BY DEF Clash, SplitGroup
  <1> QED BY <1>1 DEF Clash, ConflictPairs

LEMMA PairsHit ==
  ASSUME NEW hits, NEW a, NEW b, <<a, b>> \in ConflictPairs(hits)
  PROVE  a \in hits /\ b \in hits
  BY DEF ConflictPairs

LEMMA ModelHits == ASSUME TypeOK, NEW k \in DOMAIN models
                   PROVE  models[k] \in ModelRecord /\ models[k].hits \in SUBSET Rules /\ models[k].run \in Runs
  <1>1. models[k] \in ModelRecord
    BY ElementOfSeq DEF TypeOK
  <1> QED BY <1>1 DEF ModelRecord

LEMMA InitClash == Init => ClashInv
  BY UnusedTypes DEF Init, ClashInv, ClashesReported, Resolving, NoConflict

LEMMA ClashStep == TypeInv /\ ClashInv /\ [Next]_vars => ClashInv'
  <1> SUFFICES ASSUME TypeInv, ClashInv, [Next]_vars PROVE ClashInv'
    OBVIOUS
  <1> USE DEF tables
  \* A step that leaves models and conflicts alone, and lets no resolver pass its test anew.
  <1>1. ASSUME UNCHANGED <<models, conflict>>,
               \A v \in Resolvers : Resolving(v)' =>
                   conflict[resolver'[v].conflict].status # "ABSENT"
        PROVE  ClashInv'
    BY <1>1 DEF ClashInv, ClashesReported, ModelsOf, Clash, ConflictValue
  <1>2. ASSUME UNCHANGED <<models, conflict, resolver>> PROVE ClashInv'
    BY <1>1, <1>2 DEF ClashInv, Resolving
  <1>3. ASSUME NEW r \in Runs, Write(r) PROVE ClashInv'
    <2> DEFINE hits == Hits(run[r].rules, run[r].disabled, run[r].facts)
               m == [run |-> r, version |-> run[r].current + 1, hits |-> hits]
    <2>1. models' = Append(models, m) /\ m.run = r /\ m.hits = hits /\ UNCHANGED resolver
      BY <1>3 DEF Write
    <2>2. \A c \in ConflictIds :
            IF c[1] = r /\ <<c[2], c[3]>> \in ConflictPairs(hits)
              THEN conflict'[c].status = "OPEN" ELSE conflict'[c] = conflict[c]
      BY <1>3 DEF Write
    <2>3. hits \in SUBSET Rules
      BY HitsType DEF TypeInv, TypeOK, RunRecord
    <2> HIDE DEF m, hits
    <2>4. models \in Seq(ModelRecord) /\ Len(models) \in Nat
      BY DEF TypeInv, TypeOK
    <2>5. /\ DOMAIN models = 1..Len(models) /\ DOMAIN models' = 1..(Len(models) + 1)
          /\ \A k \in 1..Len(models) : models'[k] = models[k]
          /\ models'[Len(models) + 1] = m
      BY <2>1, <2>4
    <2>6. \A c \in ConflictIds : conflict[c].status # "ABSENT" => conflict'[c].status # "ABSENT"
      BY <2>2
    <2>7. ASSUME NEW k \in DOMAIN models', NEW a \in models'[k].hits, NEW b \in models'[k].hits,
                 Clash(a, b)
          PROVE  conflict'[<<models'[k].run, a, b>>].status # "ABSENT"
      <3>1. CASE k \in 1..Len(models)
        <4>1. models[k].hits \in SUBSET Rules /\ models[k].run \in Runs
          BY <2>5, <3>1, ModelHits DEF TypeInv
        <4>2. <<models[k].run, a, b>> \in ConflictIds
          BY <2>5, <2>7, <3>1, <4>1 DEF ConflictIds, Clash
        <4>3. conflict[<<models[k].run, a, b>>].status # "ABSENT"
          BY <2>5, <2>7, <3>1 DEF ClashInv, ClashesReported
        <4> QED BY <2>5, <2>6, <3>1, <4>2, <4>3
      <3>2. CASE k = Len(models) + 1
        <4>1. a \in hits /\ b \in hits
          BY <2>1, <2>5, <2>7, <3>2
        <4>2. <<a, b>> \in ConflictPairs(hits)
          BY <2>3, <2>7, <4>1, ClashPairs
        <4>3. <<r, a, b>> \in ConflictIds
          BY <2>3, <2>7, <4>1 DEF ConflictIds, Clash
        <4> QED BY <2>1, <2>2, <2>5, <3>2, <4>2, <4>3
      <3> QED BY <2>5, <2>4, <3>1, <3>2
    <2>8. ASSUME NEW c \in ConflictIds, conflict'[c].status # "ABSENT"
          PROVE  \E k \in DOMAIN models' : models'[k].run = c[1] /\ {c[2], c[3]} \subseteq models'[k].hits
      <3>1. CASE conflict[c].status # "ABSENT"
        <4>1. PICK k \in DOMAIN models : models[k].run = c[1] /\ {c[2], c[3]} \subseteq models[k].hits
          BY <3>1 DEF ClashInv, ClashesReported, ModelsOf
        <4> QED BY <2>4, <2>5, <4>1
      <3>2. CASE conflict[c].status = "ABSENT"
        <4>1. c[1] = r /\ <<c[2], c[3]>> \in ConflictPairs(hits)
          BY <2>2, <2>8, <3>2
        <4>2. c[2] \in hits /\ c[3] \in hits
          BY <4>1, PairsHit
        <4> QED BY <2>1, <2>4, <2>5, <4>1, <4>2
      <3> QED BY <3>1, <3>2
    <2>9. \A v \in Resolvers : Resolving(v)' => conflict'[resolver'[v].conflict].status # "ABSENT"
      BY <2>1, <2>6 DEF ClashInv, TypeInv, ResolverBound, Resolving
    <2>10. ClashesReported'
      BY <2>7, <2>8 DEF ClashesReported, ModelsOf, Clash, ConflictValue
    <2> QED BY <2>9, <2>10 DEF ClashInv
  <1>4. ASSUME NEW v \in Resolvers, Resolve(v) PROVE ClashInv'
    <2> DEFINE c == resolver[v].conflict
    <2>1. c \in ConflictIds /\ conflict[c].status # "ABSENT" /\ UNCHANGED models
      BY <1>4 DEF Resolve, TypeInv, ResolverBound, ClashInv
    <2>2. \A d \in ConflictIds : conflict'[d].status # "ABSENT" <=> conflict[d].status # "ABSENT"
      <3>1. \A d \in ConflictIds : d # c => conflict'[d] = conflict[d]
        BY <1>4 DEF Resolve, TypeInv, TypeOK
      <3>2. conflict'[c].status \in {"IGNORED", "RESOLVED"}
        <4>1. CASE resolver[v].resolution = "IGNORE"
          BY <1>4, <2>1, <4>1 DEF Resolve, TypeInv, TypeOK, ConflictRecord
        <4>2. CASE resolver[v].resolution # "IGNORE"
          BY <1>4, <2>1, <4>2 DEF Resolve, TypeInv, TypeOK, ConflictRecord
        <4> QED BY <4>1, <4>2
      <3> QED BY <2>1, <3>1, <3>2
    <2>3. ClashesReported'
      <3>1. ASSUME NEW k \in DOMAIN models, NEW a \in models[k].hits, NEW b \in models[k].hits,
                   Clash(a, b)
            PROVE  conflict'[<<models[k].run, a, b>>].status # "ABSENT"
        <4>1. <<models[k].run, a, b>> \in ConflictIds
          BY <3>1, ModelHits DEF TypeInv, ConflictIds, Clash
        <4> QED BY <2>2, <3>1, <4>1 DEF ClashInv, ClashesReported
      <3>2. \A d \in ConflictIds : conflict'[d].status # "ABSENT" =>
               \E k \in ModelsOf(d[1]) : {d[2], d[3]} \subseteq models[k].hits
        BY <2>2 DEF ClashInv, ClashesReported
      <3> QED BY <2>1, <3>1, <3>2 DEF ClashesReported, ModelsOf, Clash, ConflictValue
    <2>4. \A w \in Resolvers : Resolving(w)' => Resolving(w) /\ resolver'[w] = resolver[w]
      BY <1>4 DEF Resolve, Resolving, TypeInv, TypeOK, ResolverRecord
    <2>5. \A w \in Resolvers : Resolving(w)' => conflict'[resolver'[w].conflict].status # "ABSENT"
      BY <2>2, <2>4 DEF ClashInv, TypeInv, ResolverBound
    <2> QED BY <2>3, <2>5 DEF ClashInv
  <1>5. ASSUME NEW v \in Resolvers, ResolveFails(v) PROVE ClashInv'
    <2>1. \A w \in Resolvers : Resolving(w)' => Resolving(w) /\ resolver'[w] = resolver[w]
      BY <1>5 DEF ResolveFails, Resolving, TypeInv, TypeOK, ResolverRecord
    <2> QED BY <1>1, <1>5, <2>1 DEF ResolveFails, ClashInv
  <1>6. ASSUME NEW v \in Resolvers, NEW c \in ConflictIds, NEW res \in Resolution,
               ReadConflict(v, c, res)
        PROVE  ClashInv'
    <2>1. /\ resolver' = [resolver EXCEPT ![v] =
                 [pc |-> IF conflict[c].status = "RESOLVED" THEN "done" ELSE "resolve",
                  conflict |-> c, resolution |-> res]]
          /\ conflict[c].status # "ABSENT" /\ UNCHANGED <<models, conflict>>
      BY <1>6 DEF ReadConflict
    <2>2. \A w \in Resolvers : resolver'[w].conflict = c \/ resolver'[w] = resolver[w]
      BY <2>1 DEF TypeInv, TypeOK
    <2> QED BY <1>1, <2>1, <2>2 DEF ClashInv, Resolving
  <1>7. ASSUME NEW r \in Runs, NEW given, NEW picked, ReadProject(r, given, picked) PROVE ClashInv'
    BY <1>2, <1>7 DEF ReadProject
  <1>8. ASSUME NEW r \in Runs, Advance(r) PROVE ClashInv'
    <2>1. CASE Write(r)
      BY <1>3, <2>1
    <2>2. CASE ~Write(r)
      BY <1>2, <1>8, <2>2 DEF Advance, CreateEvaluation, FetchRuleSets, FetchOverrides, FetchModel,
              Evaluate, StepFails, Catch, RunLost
    <2> QED BY <2>1, <2>2
  <1>9. ASSUME NEW f, ChangeFact(f) PROVE ClashInv'
    BY <1>2, <1>9 DEF ChangeFact
  <1>10. CASE UNCHANGED vars
    BY <1>2, <1>10 DEF vars
  <1> QED BY <1>4, <1>5, <1>6, <1>7, <1>8, <1>9, <1>10 DEF Next

\* However runs and resolvers overlap and fail, no model keeps silent about two of its rules
\* that state different values for one key, and every conflict is of one evaluation's rules.
THEOREM ClashesKnown == SafeSpec => []ClashesReported
  <1> DEFINE Inv == TypeInv /\ ClashInv
  <1>1. Init => Inv
    BY InitTypeInv, InitClash
  <1>2. Inv /\ [Next]_vars => Inv'
    BY TypeInvStep, ClashStep
  <1>3. Inv => ClashesReported
    BY DEF ClashInv
  <1> QED BY <1>1, <1>2, <1>3, PTL DEF SafeSpec

(***************************************************************************)
(* OverrideTraceable, with one resolver at a time: what a resolver holds   *)
(* is then still unresolved, and a conflict that has an override is not    *)
(* written by its evaluation again.                                        *)
(***************************************************************************)
TraceInv ==
    /\ \A o \in overrides : /\ conflict[o.conflict].status = "RESOLVED"
                            /\ conflict[o.conflict].by = o.by
    /\ \A v \in Resolvers : Resolving(v) => conflict[resolver[v].conflict].status # "RESOLVED"
    /\ \A v, w \in Resolvers : Resolving(v) /\ Resolving(w) => v = w

LEMMA InitTrace == Init => TraceInv
  BY UnusedTypes DEF Init, TraceInv, Resolving

LEMMA TraceStep ==
  ASSUME SerialResolvers, TypeInv, MatchInv, ClashInv, TraceInv, [Next]_vars
  PROVE  TraceInv'
  <1> USE DEF tables
  <1>1. ASSUME UNCHANGED <<conflict, overrides, resolver>> PROVE TraceInv'
    BY <1>1 DEF TraceInv, Resolving
  <1>2. ASSUME NEW r \in Runs, Write(r) PROVE TraceInv'
    <2>1. /\ UNCHANGED <<overrides, resolver>>
          /\ \A c \in ConflictIds :
               \/ conflict'[c] = conflict[c]
               \/ c[1] = r /\ conflict'[c].status = "OPEN"
      BY <1>2 DEF Write
    <2>2. ModelsOf(r) = {}
      BY <1>2 DEF Write, MatchInv, PcStatus, EvaluationMatchesModel
    <2>3. \A o \in overrides : o.conflict \in ConflictIds
      BY DEF TypeInv, TypeOK, OverrideRecord
    <2>4. \A o \in overrides : o.conflict[1] # r
      BY <2>2, <2>3 DEF TraceInv, ClashInv, ClashesReported
    <2>5. \A o \in overrides : conflict'[o.conflict] = conflict[o.conflict]
      BY <2>1, <2>3, <2>4
    <2>6. \A v \in Resolvers : Resolving(v) => conflict'[resolver[v].conflict].status # "RESOLVED"
      BY <2>1 DEF TraceInv, TypeInv, ResolverBound
    <2> QED BY <2>1, <2>5, <2>6 DEF TraceInv, Resolving
  <1>3. ASSUME NEW r \in Runs, Advance(r) PROVE TraceInv'
    <2>1. CASE Write(r)
      BY <1>2, <2>1
    <2>2. CASE ~Write(r)
      BY <1>1, <1>3, <2>2 DEF Advance, CreateEvaluation, FetchRuleSets, FetchOverrides, FetchModel,
              Evaluate, StepFails, Catch, RunLost
    <2> QED BY <2>1, <2>2
  <1>4. ASSUME NEW v \in Resolvers, Resolve(v) PROVE TraceInv'
    <2> DEFINE c == resolver[v].conflict
    <2>1. c \in ConflictIds /\ conflict[c].status # "RESOLVED" /\ Resolving(v)
      BY <1>4 DEF Resolve, TypeInv, ResolverBound, TraceInv
    <2>2. \A w \in Resolvers : ~Resolving(w)'
      BY <1>4, <2>1 DEF Resolve, Resolving, TraceInv, TypeInv, TypeOK, ResolverRecord
    <2>3. \A o \in overrides : o.conflict # c
      BY <2>1 DEF TraceInv
    <2>4. \A d \in ConflictIds : d # c => conflict'[d] = conflict[d]
      BY <1>4 DEF Resolve, TypeInv, TypeOK
    <2>5. \A o \in overrides : conflict'[o.conflict] = conflict[o.conflict]
      BY <2>3, <2>4 DEF TypeInv, TypeOK, OverrideRecord
    <2>6. \A o \in overrides' \ overrides :
            conflict'[o.conflict].status = "RESOLVED" /\ conflict'[o.conflict].by = o.by
      BY <1>4, <2>1 DEF Resolve, TypeInv, TypeOK
    <2> QED BY <2>2, <2>5, <2>6 DEF TraceInv
  <1>5. ASSUME NEW v \in Resolvers, ResolveFails(v) PROVE TraceInv'
    <2>1. \A w \in Resolvers : Resolving(w)' => Resolving(w) /\ resolver'[w] = resolver[w]
      BY <1>5 DEF ResolveFails, Resolving, TypeInv, TypeOK, ResolverRecord
    <2> QED BY <1>5, <2>1 DEF ResolveFails, TraceInv
  <1>6. ASSUME NEW v \in Resolvers, NEW c \in ConflictIds, NEW res \in Resolution,
               ReadConflict(v, c, res)
        PROVE  TraceInv'
    <2>1. /\ resolver' = [resolver EXCEPT ![v] =
                 [pc |-> IF conflict[c].status = "RESOLVED" THEN "done" ELSE "resolve",
                  conflict |-> c, resolution |-> res]]
          /\ UNCHANGED <<conflict, overrides>>
          /\ \A w \in Resolvers : ~Resolving(w)
      BY <1>6 DEF ReadConflict
    <2>2. \A w \in Resolvers : w # v => resolver'[w] = resolver[w]
      BY <2>1 DEF TypeInv, TypeOK
    <2>3. /\ resolver'[v].conflict = c
          /\ resolver'[v].pc = IF conflict[c].status = "RESOLVED" THEN "done" ELSE "resolve"
      BY <2>1 DEF TypeInv, TypeOK
    <2> QED BY <2>1, <2>2, <2>3 DEF TraceInv, Resolving
  <1>7. ASSUME NEW r \in Runs, NEW given, NEW picked, ReadProject(r, given, picked) PROVE TraceInv'
    BY <1>1, <1>7 DEF ReadProject
  <1>8. ASSUME NEW f, ChangeFact(f) PROVE TraceInv'
    BY <1>1, <1>8 DEF ChangeFact
  <1>9. CASE UNCHANGED vars
    BY <1>1, <1>9 DEF vars
  <1> QED BY <1>3, <1>4, <1>5, <1>6, <1>7, <1>8, <1>9 DEF Next

\* If conflicts are resolved one at a time, every override can be traced, and rolled back,
\* from the one conflict it resolves, whatever runs do meanwhile.
THEOREM SerialOverridesTraceable ==
  ASSUME SerialResolvers
  PROVE  SafeSpec => []OverrideTraceable
  <1> DEFINE Inv == TypeInv /\ MatchInv /\ ClashInv /\ TraceInv
  <1>1. Init => Inv
    BY InitTypeInv, InitMatch, InitClash, InitTrace
  <1>2. Inv /\ [Next]_vars => Inv'
    BY TypeInvStep, MatchStep, ClashStep, TraceStep
  <1>3. Inv => OverrideTraceable
    BY DEF TraceInv, OverrideTraceable
  <1> QED BY <1>1, <1>2, <1>3, PTL DEF SafeSpec

(***************************************************************************)
(* VersionsCount and LatestRunWins, with one run at a time: the run in     *)
(* progress is the one that started last, and the version it has read is   *)
(* that of the last model.                                                 *)
(***************************************************************************)
SerialInv ==
    /\ \A q, r \in Runs : InProgress(q) /\ InProgress(r) => q = r
    /\ \A k, n \in DOMAIN started : started[k] = started[n] => k = n
    /\ \A r \in Runs :
         /\ run[r].pc \in {"unused", "create"} => \A k \in DOMAIN started : started[k] # r
         /\ run[r].pc \in {"fetch", "write", "catch"} =>
                started # <<>> /\ started[Len(started)] = r
         /\ run[r].pc \in {"fetch", "write"} /\ "currentModel" \in run[r].fetched =>
                run[r].current = Len(models)
    /\ VersionsCount /\ LatestRunWins

LEMMA InitSerial == Init => SerialInv
  BY UnusedTypes DEF Init, SerialInv, InProgress, RunOpen, VersionsCount, LatestRunWins

LEMMA SerialStep ==
  ASSUME SerialRuns, TypeInv, MatchInv, BarredInv, SerialInv, [Next]_vars
  PROVE  SerialInv'
  <1> USE DEF tables
  <1>0. \A r \in Runs : run[r] \in RunRecord /\ Barred(r)
    BY DEF TypeInv, TypeOK, BarredInv
  <1>a. /\ started \in Seq(Runs) /\ Len(started) \in Nat /\ DOMAIN started = 1..Len(started)
        /\ models \in Seq(ModelRecord) /\ Len(models) \in Nat /\ DOMAIN models = 1..Len(models)
    BY DEF TypeInv, TypeOK
  \* A run that is in progress goes on, or ends, without a new model or evaluation.
  <1>1. ASSUME NEW r \in Runs, NEW STATE c, run' = [run EXCEPT ![r] = c], InProgress(r),
               run[r].pc # "create", c.pc \notin {"unused", "create"},
               UNCHANGED <<started, models>>, LatestRunWins',
               c.pc \in {"fetch", "write"} /\ "currentModel" \in c.fetched => c.current = Len(models)
        PROVE  SerialInv'
    <2>1. run'[r] = c /\ \A q \in Runs : q # r => run'[q] = run[q]
      BY <1>1 DEF TypeInv, TypeOK
    <2>2. run[r].pc \in {"fetch", "write", "catch"}
      BY <1>1 DEF InProgress, RunOpen
    <2>3. started # <<>> /\ started[Len(started)] = r
      BY <2>2 DEF SerialInv
    <2>4. \A p, q \in Runs : InProgress(p)' /\ InProgress(q)' => p = q
      BY <1>1, <2>1 DEF SerialInv, InProgress
    <2>5. \A k \in DOMAIN started : run'[started[k]].pc \notin {"unused", "create"}
      BY <1>1, <1>a, <2>1 DEF SerialInv
    <2>6. \A q \in Runs : run'[q].pc \in {"unused", "create"} => \A k \in DOMAIN started : started[k] # q
      BY <2>5
    <2> QED BY <1>1, <2>1, <2>3, <2>4, <2>6 DEF SerialInv, VersionsCount
  <1>2. UNCHANGED <<eval, started, models>> => LatestRunWins'
    BY DEF SerialInv, LatestRunWins, LatestRequirements
  <1>3. ASSUME NEW r \in Runs, NEW given, NEW picked, ReadProject(r, given, picked) PROVE SerialInv'
    <2> DEFINE c == [run[r] EXCEPT !.pc = "create", !.picked = picked,
                               !.facts = IF given = NoFact THEN fact ELSE given]
    <2>1. /\ run' = [run EXCEPT ![r] = c] /\ c.pc = "create" /\ run[r].pc = "unused"
          /\ UNCHANGED tables /\ \A q \in Runs : ~InProgress(q)
      BY <1>0, <1>3 DEF ReadProject, RunRecord
    <2> HIDE DEF c
    <2>2. run'[r] = c /\ \A q \in Runs : q # r => run'[q] = run[q]
      BY <2>1 DEF TypeInv, TypeOK
    <2>3. \A p, q \in Runs : InProgress(p)' /\ InProgress(q)' => p = q
      BY <2>1, <2>2 DEF InProgress
    <2> QED BY <1>2, <2>1, <2>2, <2>3 DEF SerialInv, VersionsCount
  <1>4. ASSUME NEW r \in Runs, CreateEvaluation(r) PROVE SerialInv'
    <2> DEFINE c == [run[r] EXCEPT !.pc = "fetch", !.barred = Disabled]
    <2>1. /\ run' = [run EXCEPT ![r] = c] /\ c.pc = "fetch" /\ run[r].pc = "create"
          /\ c.fetched = run[r].fetched
          /\ eval' = [eval EXCEPT ![r] = "RUNNING"] /\ started' = Append(started, r)
          /\ UNCHANGED models
      BY <1>0, <1>4 DEF CreateEvaluation, RunRecord
    <2> HIDE DEF c
    <2>2. run'[r] = c /\ \A q \in Runs : q # r => run'[q] = run[q]
      BY <2>1 DEF TypeInv, TypeOK
    <2>3. c.fetched = {}
      BY <1>0, <2>1 DEF Barred
    <2>4. /\ DOMAIN started' = 1..(Len(started) + 1) /\ started'[Len(started) + 1] = r
          /\ \A k \in 1..Len(started) : started'[k] = started[k]
          /\ Len(started') = Len(started) + 1 /\ started' # <<>>
      BY <1>a, <2>1
    <2>5. \A k \in DOMAIN started : started[k] # r
      BY <2>1 DEF SerialInv
    <2>6. \A q \in Runs : InProgress(q) => q = r
      BY <2>1 DEF SerialInv, InProgress, RunOpen
    <2>7. \A p, q \in Runs : InProgress(p)' /\ InProgress(q)' => p = q
      BY <2>2, <2>6 DEF InProgress
    <2>8. \A k, n \in DOMAIN started' : started'[k] = started'[n] => k = n
      BY <1>a, <2>4, <2>5 DEF SerialInv
    <2>9. \A q \in Runs : q # r => run[q].pc \notin {"create", "fetch", "write", "catch"}
      BY <2>6 DEF InProgress, RunOpen
    <2>10. \A q \in Runs : run'[q].pc \in {"unused", "create"} =>
               \A k \in DOMAIN started' : started'[k] # q
      BY <1>a, <2>1, <2>2, <2>4 DEF SerialInv
    <2>11. LatestRunWins'
      <3> SUFFICES ASSUME models # <<>>, NEW k \in DOMAIN started', NEW n \in DOMAIN started', n < k,
                          started'[n] = LatestRequirements.run
                   PROVE  eval'[started'[k]] # "COMPLETED"
        BY <2>1 DEF LatestRunWins, LatestRequirements
      <3>1. CASE k = Len(started) + 1
        BY <2>1, <2>4, <3>1 DEF TypeInv, TypeOK
      <3>2. CASE k # Len(started) + 1
        <4>1. k \in 1..Len(started) /\ n \in 1..Len(started)
          BY <1>a, <2>4, <3>2
        <4>2. eval[started[k]] # "COMPLETED"
          BY <1>a, <2>4, <4>1 DEF SerialInv, LatestRunWins
        <4>3. started[k] \in Runs /\ started[k] # r
          BY <1>a, <2>5, <4>1
        <4> QED BY <2>1, <2>4, <4>1, <4>2, <4>3 DEF TypeInv, TypeOK
      <3> QED BY <3>1, <3>2
    <2> QED BY <2>1, <2>2, <2>3, <2>4, <2>7, <2>8, <2>9, <2>10, <2>11 DEF SerialInv, VersionsCount
  <1>5. ASSUME NEW r \in Runs, FetchRuleSets(r) \/ FetchOverrides(r) PROVE SerialInv'
    <2>1. PICK c : /\ run' = [run EXCEPT ![r] = c] /\ c.pc = "fetch" /\ c.current = run[r].current
                   /\ "currentModel" \in c.fetched <=> "currentModel" \in run[r].fetched
      <3>1. CASE FetchRuleSets(r)
        <4> DEFINE c == [run[r] EXCEPT !.fetched = @ \cup {"ruleSets"}, !.rules = run[r].picked]
        <4>1. /\ run' = [run EXCEPT ![r] = c] /\ c.pc = "fetch" /\ c.current = run[r].current
              /\ "currentModel" \in c.fetched <=> "currentModel" \in run[r].fetched
          BY <1>0, <3>1 DEF FetchRuleSets, RunRecord
        <4> QED BY <4>1
      <3>2. CASE FetchOverrides(r)
        <4> DEFINE c == [run[r] EXCEPT !.fetched = @ \cup {"overrides"}, !.disabled = Disabled]
        <4>1. /\ run' = [run EXCEPT ![r] = c] /\ c.pc = "fetch" /\ c.current = run[r].current
              /\ "currentModel" \in c.fetched <=> "currentModel" \in run[r].fetched
          BY <1>0, <3>2 DEF FetchOverrides, RunRecord
        <4> QED BY <4>1
      <3> QED BY <1>5, <3>1, <3>2
    <2>2. run[r].pc = "fetch" /\ UNCHANGED tables
      BY <1>5 DEF FetchRuleSets, FetchOverrides
    <2>3. InProgress(r)
      BY <2>2 DEF InProgress, RunOpen
    <2>4. "currentModel" \in c.fetched => c.current = Len(models)
      BY <2>1, <2>2 DEF SerialInv
    <2> QED BY <1>1, <1>2, <2>1, <2>2, <2>3, <2>4
  <1>6. ASSUME NEW r \in Runs, FetchModel(r) PROVE SerialInv'
    <2> DEFINE n == IF models = <<>> THEN 0 ELSE LatestRequirements.version
               c == [run[r] EXCEPT !.fetched = @ \cup {"currentModel"}, !.current = n]
    <2>1. n = Len(models)
      <3>1. CASE models = <<>>
        BY <3>1
      <3>2. CASE models # <<>>
        <4>1. Len(models) \in DOMAIN models
          BY <1>a, <3>2
        <4> QED BY <3>2, <4>1 DEF SerialInv, VersionsCount, LatestRequirements
      <3> QED BY <3>1, <3>2
    <2>2. run' = [run EXCEPT ![r] = c] /\ c.pc = "fetch" /\ c.current = n
      BY <1>0, <1>6 DEF FetchModel, RunRecord
    <2>3. run[r].pc = "fetch" /\ UNCHANGED tables /\ InProgress(r)
      BY <1>6 DEF FetchModel, InProgress, RunOpen
    <2> HIDE DEF n, c
    <2> QED BY <1>1, <1>2, <2>1, <2>2, <2>3
  <1>7. ASSUME NEW r \in Runs, Evaluate(r) PROVE SerialInv'
    <2> DEFINE c == [run[r] EXCEPT !.pc = "write"]
    <2>1. /\ run' = [run EXCEPT ![r] = c] /\ c.pc = "write" /\ c.current = run[r].current
          /\ run[r].fetched = Query /\ run[r].pc = "fetch" /\ UNCHANGED tables
      BY <1>0, <1>7 DEF Evaluate, RunRecord
    <2>2. InProgress(r) /\ run[r].current = Len(models)
      BY <2>1 DEF InProgress, RunOpen, SerialInv, Query
    <2> HIDE DEF c
    <2> QED BY <1>1, <1>2, <2>1, <2>2
  <1>8. ASSUME NEW r \in Runs, StepFails(r) \/ Catch(r) \/ (RunLost(r) /\ run[r].pc # "create")
        PROVE  SerialInv'
    <2>1. PICK pc \in {"catch", "failed", "lost"} : run' = [run EXCEPT ![r].pc = pc]
      BY <1>8 DEF StepFails, Catch, RunLost
    <2> DEFINE c == [run[r] EXCEPT !.pc = pc]
    <2>2. run' = [run EXCEPT ![r] = c] /\ c.pc = pc
      BY <1>0, <2>1 DEF RunRecord
    <2>3. run[r].pc # "create" /\ InProgress(r) /\ UNCHANGED <<started, models>>
      BY <1>8 DEF StepFails, Catch, RunLost, InProgress, RunOpen
    <2>4. LatestRunWins'
      <3>1. CASE Catch(r)
        <4>1. \A q \in Runs : eval'[q] = "COMPLETED" => eval[q] = "COMPLETED"
          BY <3>1 DEF Catch, TypeInv, TypeOK
        <4> QED BY <1>a, <2>3, <4>1 DEF SerialInv, LatestRunWins, LatestRequirements
      <3>2. CASE ~Catch(r)
        BY <1>2, <1>8, <3>2 DEF StepFails, RunLost
      <3> QED BY <3>1, <3>2
    <2> HIDE DEF c
    <2> QED BY <1>1, <2>2, <2>3, <2>4
  <1>9. ASSUME NEW r \in Runs, RunLost(r), run[r].pc = "create" PROVE SerialInv'
    <2>1. /\ \A q \in Runs : q # r => run'[q] = run[q]
          /\ run'[r].pc = "lost" /\ UNCHANGED tables
      BY <1>0, <1>9 DEF RunLost, TypeInv, TypeOK, RunRecord
    <2>2. \A p, q \in Runs : InProgress(p)' /\ InProgress(q)' => p = q
      BY <2>1 DEF SerialInv, InProgress, RunOpen
    <2> QED BY <1>2, <2>1, <2>2 DEF SerialInv, VersionsCount
  <1>10. ASSUME NEW r \in Runs, Write(r) PROVE SerialInv'
    <2> DEFINE m == [run |-> r, version |-> run[r].current + 1,
                     hits |-> Hits(run[r].rules, run[r].disabled, run[r].facts)]
    <2>1. /\ models' = Append(models, m) /\ m.run = r /\ m.version = run[r].current + 1
          /\ run[r].pc = "write" /\ UNCHANGED started
          /\ eval' = [eval EXCEPT ![r] = "COMPLETED"]
      BY <1>10 DEF Write
    <2> HIDE DEF m
    <2>2. /\ \A q \in Runs : q # r => run'[q] = run[q]
          /\ run'[r].pc = "done"
      BY <1>0, <1>10 DEF Write, TypeInv, TypeOK, RunRecord
    <2>3. m.version = Len(models) + 1
      BY <1>0, <2>1 DEF SerialInv, Barred, Query
    <2>4. /\ DOMAIN models' = 1..(Len(models) + 1) /\ models'[Len(models) + 1] = m
          /\ \A k \in 1..Len(models) : models'[k] = models[k]
          /\ Len(models') = Len(models) + 1
      BY <1>a, <2>1
    <2>5. VersionsCount'
      BY <1>a, <2>3, <2>4 DEF SerialInv, VersionsCount
    <2>6. started[Len(started)] = r /\ Len(started) \in DOMAIN started
      BY <1>a, <2>1 DEF SerialInv
    <2>7. LatestRunWins'
      <3> SUFFICES ASSUME NEW k \in DOMAIN started, NEW n \in DOMAIN started, n < k,
                          started[n] = r
                   PROVE  FALSE
        BY <2>1, <2>4 DEF LatestRunWins, LatestRequirements
      <3>1. n = Len(started)
        BY <2>6 DEF SerialInv
      <3> QED BY <1>a, <3>1
    <2>8. \A q \in Runs : InProgress(q) => q = r
      BY <2>1 DEF SerialInv, InProgress, RunOpen
    <2>9. \A q \in Runs : run'[q].pc \notin {"create", "fetch", "write", "catch"}
      BY <2>2, <2>8 DEF InProgress, RunOpen
    <2>10. \A p, q \in Runs : InProgress(p)' /\ InProgress(q)' => p = q
      BY <2>9 DEF InProgress, RunOpen
    <2> QED BY <2>1, <2>2, <2>5, <2>7, <2>9, <2>10 DEF SerialInv
  <1>11. ASSUME UNCHANGED <<eval, started, models, run>> PROVE SerialInv'
    BY <1>2, <1>11 DEF SerialInv, InProgress, VersionsCount
  <1>12. ASSUME NEW v \in Resolvers, Resolve(v) \/ ResolveFails(v) PROVE SerialInv'
    BY <1>11, <1>12 DEF Resolve, ResolveFails
  <1>13. ASSUME NEW v \in Resolvers, NEW c \in ConflictIds, NEW res \in Resolution,
                ReadConflict(v, c, res)
         PROVE  SerialInv'
    BY <1>11, <1>13 DEF ReadConflict
  <1>14. ASSUME NEW f, ChangeFact(f) PROVE SerialInv'
    BY <1>11, <1>14 DEF ChangeFact
  <1>15. CASE UNCHANGED vars
    BY <1>11, <1>15 DEF vars
  <1> QED BY <1>3, <1>4, <1>5, <1>6, <1>7, <1>8, <1>9, <1>10, <1>12, <1>13, <1>14, <1>15
          DEF Next, Advance

SerialIInv == TypeInv /\ MatchInv /\ BarredInv /\ SerialInv

LEMMA SerialInductive ==
  ASSUME SerialRuns
  PROVE  SafeSpec => []SerialIInv
  <1>1. Init => SerialIInv
    BY InitTypeInv, InitMatch, InitBarred, InitSerial DEF SerialIInv
  <1>2. SerialIInv /\ [Next]_vars => SerialIInv'
    BY TypeInvStep, MatchStep, BarredStep, SerialStep DEF SerialIInv
  <1> QED BY <1>1, <1>2, PTL DEF SafeSpec

\* If runs take turns, what documents are built from comes from the evaluation that was
\* started last of those that completed, whatever failed or died in between.
THEOREM SerialLatestWins ==
  ASSUME SerialRuns
  PROVE  SafeSpec => []LatestRunWins
  <1>1. SerialIInv => LatestRunWins
    BY DEF SerialIInv, SerialInv
  <1> QED BY <1>1, SerialInductive, PTL

\* If runs take turns, the models are numbered in order, without gap or repeat.
THEOREM SerialVersions ==
  ASSUME SerialRuns
  PROVE  SafeSpec => []VersionsCount
  <1>1. SerialIInv => VersionsCount
    BY DEF SerialIInv, SerialInv
  <1> QED BY <1>1, SerialInductive, PTL

=============================================================================
