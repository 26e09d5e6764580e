----------------------- MODULE ProjectServices_proofs -----------------------
(*****************************************************************************)
(* Theorems about the Kiuva sign-off, for any users and calls; about         *)
(* the seed, for any number of runs and of clients' changes; and about the   *)
(* services together, each of whose behaviours is one of every part.         *)
(*                                                                           *)
(* The seed in four stages: sequences, and what a step or a script that is   *)
(* put together of others is made of; how the steps of one script relate;    *)
(* the invariant, that each step a run is past has had its effect and no     *)
(* later step undoes it; and what a run that is past all of them has left.   *)
(*****************************************************************************)
EXTENDS ProjectServices, ProjectFacts_proofs, ProjectDocs_proofs,
        FiniteSetTheorems, SequenceTheorems, WellFoundedInduction, TLAPS

----------------------------------------------------------------------------
(* Sheets of signatures *)

\* What a sheet that passed the tests is like: nobody signed twice, no step came early.
Tested(sheet) ==
    /\ \A p, q \in KiuvaRole : p # q /\ Has(sheet, p) /\ Has(sheet, q)
                               => sheet[p] # sheet[q]
    /\ Has(sheet, "verifikasjon") => Has(sheet, "utforelse")
    /\ Has(sheet, "godkjenning") => Has(sheet, "verifikasjon")

LEMMA BlankSheet == NoSheet \in Sheet /\ Tested(NoSheet) /\ \A r \in KiuvaRole : ~Has(NoSheet, r)
BY DEF NoSheet, Sheet, Tested, Has, KiuvaRole

\* A signature that passes the tests makes a tested sheet of one.
LEMMA SignedSheet ==
    ASSUME TypeOK, Tested(signature),
           NEW role \in KiuvaRole, NEW user \in Users \cup {Empty, Missing},
           SequentialApproval(role, signature), DifferentUsers(role, user, signature)
    PROVE  /\ With(role, user) \in Sheet
           /\ Tested(With(role, user))
           /\ \A r \in KiuvaRole : r # role => With(role, user)[r] = signature[r]
<1> DEFINE result == With(role, user)
<1>2. result = [signature EXCEPT ![role] = user]
  BY DEF With
<1> HIDE DEF result
<1>3. result \in Sheet /\ result[role] = user
        /\ \A r \in KiuvaRole : r # role => result[r] = signature[r]
  BY <1>2 DEF TypeOK, Sheet
<1>4. \A r \in KiuvaRole : r # role /\ Has(result, r) => result[r] # user
  BY <1>3 DEF DifferentUsers, UserOf, Has
<1>5. \A p, q \in KiuvaRole : p # q /\ Has(result, p) /\ Has(result, q)
                              => result[p] # result[q]
  BY <1>3, <1>4 DEF Tested, Has
<1>6. \A r \in KiuvaRole : /\ Signed(signature, r) => Has(signature, r)
                           /\ r # role => (Has(result, r) <=> Has(signature, r))
  BY <1>3, KiuvaAssumption DEF Signed, Has
<1>7. Has(result, role)
  BY <1>3, KiuvaAssumption DEF Has
<1>8. /\ Has(result, "verifikasjon") => Has(result, "utforelse")
      /\ Has(result, "godkjenning") => Has(result, "verifikasjon")
  <2>1. \A r \in KiuvaRole : Has(signature, r) => Has(result, r)
    BY <1>6, <1>7
  <2>2. {"utforelse", "verifikasjon", "godkjenning"} = KiuvaRole
    BY DEF KiuvaRole
  <2>3. Has(result, "verifikasjon") => Has(signature, "utforelse")
    BY <1>6, <2>2 DEF Tested, SequentialApproval
  <2>4. Has(result, "godkjenning") => Has(signature, "verifikasjon")
    BY <1>6, <2>2 DEF Tested, SequentialApproval
  <2> QED
    BY <2>1, <2>2, <2>3, <2>4
<1> QED
  BY <1>3, <1>5, <1>8 DEF Tested, result

----------------------------------------------------------------------------
(* The invariant: whatever is stored, and whatever a call is about to store, is a tested *)
(* sheet; and where calls take turns only one is about to be, and it is the stored one   *)
(* but for one entry.                                                                    *)

OneEntry(s) == \E role \in KiuvaRole :
    \A other \in KiuvaRole \ {role} : signing[s].result[other] = signature[other]

SheetInv ==
    /\ TypeOK
    /\ Tested(signature)
    /\ \A s \in Signings : Tested(signing[s].result)
    /\ turns => \A s \in Signings : signing[s].pc = "write" =>
                  /\ OneEntry(s)
                  /\ \A t \in Signings : signing[t].pc = "write" => t = s

LEMMA InitSheet == Init => SheetInv
<1> SUFFICES ASSUME Init PROVE SheetInv
  OBVIOUS
<1>1. TypeOK
  BY BlankSheet, KiuvaAssumption, TurnsAssumption DEF Init, TypeOK, SigningRecord
<1> QED
  BY <1>1, BlankSheet DEF Init, SheetInv

\* A call that ends holds nothing.
LEMMA EndSheet ==
    ASSUME SheetInv, NEW s \in Signings, End(s),
           \/ signature' = signature
           \/ signing[s].pc = "write" /\ signature' = signing[s].result,
           turns' = turns
    PROVE  SheetInv'
<1> DEFINE ended == [pc |-> "ended", result |-> NoSheet]
<1>1. ended \in SigningRecord /\ ended.pc = "ended" /\ ended.result = NoSheet
  BY BlankSheet DEF SigningRecord
<1>2. signing' = [signing EXCEPT ![s] = ended]
  BY DEF End
<1> HIDE DEF ended
<1>3. signing' \in [Signings -> SigningRecord] /\ signing'[s] = ended
        /\ \A t \in Signings : t # s => signing'[t] = signing[t]
  BY <1>1, <1>2 DEF SheetInv, TypeOK
<1>4. signature' \in Sheet /\ Tested(signature')
  BY DEF SheetInv, TypeOK, SigningRecord
<1>5. \A t \in Signings : Tested(signing'[t].result)
  BY <1>1, <1>3, BlankSheet DEF SheetInv
<1>6. TypeOK'
  BY <1>3, <1>4 DEF SheetInv, TypeOK
<1>7. turns => \A t \in Signings : signing'[t].pc = "write" =>
                 /\ OneEntry(t)'
                 /\ \A v \in Signings : signing'[v].pc = "write" => v = t
  <2> SUFFICES ASSUME turns, NEW t \in Signings, signing'[t].pc = "write"
               PROVE  /\ OneEntry(t)'
                      /\ \A v \in Signings : signing'[v].pc = "write" => v = t
    OBVIOUS
  <2>1. t # s /\ signing'[t] = signing[t] /\ signing[t].pc = "write"
    BY <1>1, <1>3
  <2>2. signing[s].pc # "write"
    BY <2>1 DEF SheetInv
  <2>3. OneEntry(t)'
    BY <2>1, <2>2 DEF SheetInv, OneEntry
  <2>4. \A v \in Signings : signing'[v].pc = "write" => v = t
    BY <1>1, <1>3, <2>1 DEF SheetInv
  <2> QED
    BY <2>3, <2>4
<1> QED
  BY <1>4, <1>5, <1>6, <1>7 DEF SheetInv, Tested, Has

LEMMA NextSheet == SheetInv /\ [Next]_vars => SheetInv'
<1> SUFFICES ASSUME SheetInv, [Next]_vars PROVE SheetInv'
  OBVIOUS
<1>1. ASSUME NEW s \in Signings, NEW role \in KiuvaRole, NEW user \in Users \cup {Empty, Missing},
             ReadNode(s, role, user)
      PROVE  SheetInv'
  <2>1. CASE ~(SequentialApproval(role, signature) /\ DifferentUsers(role, user, signature))
    <3>1. End(s) /\ signature' = signature /\ turns' = turns
      BY <1>1, <2>1 DEF ReadNode
    <3> QED
      BY <3>1, EndSheet
  <2>2. CASE SequentialApproval(role, signature) /\ DifferentUsers(role, user, signature)
    <3> DEFINE result == With(role, user)
               prepared == [pc |-> "write", result |-> result]
    <3>1. result \in Sheet /\ Tested(result)
        /\ \A r \in KiuvaRole : r # role => result[r] = signature[r]
      BY <2>2, SignedSheet DEF SheetInv
    <3>2. signing' = [signing EXCEPT ![s] = prepared]
      BY <1>1, <2>2 DEF ReadNode
    <3>3. prepared.result = result
      OBVIOUS
    <3> HIDE DEF result
    <3>4. prepared \in SigningRecord
      BY <3>1 DEF SigningRecord
    <3> HIDE DEF prepared
    <3>5. signing' \in [Signings -> SigningRecord] /\ signing'[s] = prepared
            /\ \A t \in Signings : t # s => signing'[t] = signing[t]
      BY <3>2, <3>4 DEF SheetInv, TypeOK
    <3>6. signature' = signature /\ turns' = turns
      BY <1>1 DEF ReadNode
    <3>7. TypeOK'
      BY <3>5, <3>6 DEF SheetInv, TypeOK
    <3>8. \A t \in Signings : Tested(signing'[t].result)
      BY <3>1, <3>3, <3>5 DEF SheetInv
    <3>9. turns => \A t \in Signings : signing'[t].pc = "write" => t = s
      BY <1>1, <3>5 DEF ReadNode, Turn
    <3>10. OneEntry(s)'
      BY <3>1, <3>3, <3>5, <3>6 DEF OneEntry
    <3> QED
      BY <3>6, <3>7, <3>8, <3>9, <3>10 DEF SheetInv, Tested, Has
  <2> QED
    BY <2>1, <2>2
<1>2. ASSUME NEW s \in Signings, WriteSignature(s) PROVE SheetInv'
  BY <1>2, EndSheet DEF WriteSignature
<1>3. ASSUME NEW s \in Signings, SigningFails(s) PROVE SheetInv'
  <2>1. End(s) /\ signature' = signature /\ turns' = turns
    BY <1>3 DEF SigningFails
  <2> QED
    BY <2>1, EndSheet
<1>4. CASE UNCHANGED vars
  BY <1>4 DEF vars, SheetInv, TypeOK, OneEntry, Tested, Has
<1> QED
  BY <1>1, <1>2, <1>3, <1>4 DEF Next

----------------------------------------------------------------------------

\* Every reachable sheet, stored or about to be, is well typed.
THEOREM SignOffTypeCorrect == Spec => []TypeOK
<1>1. SheetInv => TypeOK
  BY DEF SheetInv
<1> QED
  BY <1>1, InitSheet, NextSheet, PTL DEF Spec

\* However signatures and renewals overlap, a complete sign-off is by three users.
THEOREM ThreeSigners == Spec => []CompleteByThree
<1>1. SheetInv => CompleteByThree
  BY KiuvaAssumption DEF SheetInv, Tested, CompleteByThree, Complete, Signed, Has
<1> QED
  BY <1>1, InitSheet, NextSheet, PTL DEF Spec

\* However they overlap, no step is signed without the ones before it.
THEOREM NoStepEarly == Spec => []StepsInOrder
<1>1. SheetInv => StepsInOrder
  BY DEF SheetInv, Tested, StepsInOrder
<1> QED
  BY <1>1, InitSheet, NextSheet, PTL DEF Spec

\* Where calls take turns, no signature takes away or changes that of another role.
THEOREM OthersStay == Spec => []TurnsKeepOthers
<1>1. SheetInv => TurnsKeepOthers
  BY DEF SheetInv, OneEntry, TurnsKeepOthers
<1> QED
  BY <1>1, InitSheet, NextSheet, PTL DEF Spec

(***************************************************************************)
(* Sequences: what is in one that is put together of others                *)
(***************************************************************************)

\* s is a sequence.
Sequence(s) == s \in Seq(ToSet(s))

\* Whatever is a function on 1..n is a sequence.
LEMMA Enumerated ==
  ASSUME NEW n \in Nat, NEW s, DOMAIN s = 1..n, s = [i \in 1..n |-> s[i]]
  PROVE  Sequence(s)
  BY DEF Sequence, ToSet

\* What a sequence is: a function on 1..n, with elements of any set that has them.
LEMMA SequenceIs ==
  ASSUME NEW s, Sequence(s)
  PROVE  /\ Len(s) \in Nat /\ DOMAIN s = 1..Len(s) /\ s = [i \in 1..Len(s) |-> s[i]]
         /\ \A S : ToSet(s) \subseteq S => s \in Seq(S)
  BY DEF Sequence, ToSet

\* Two sequences one after the other are a sequence with the elements of both.
LEMMA Joined ==
  ASSUME NEW s, NEW t, Sequence(s), Sequence(t)
  PROVE  Sequence(s \o t) /\ ToSet(s \o t) = ToSet(s) \cup ToSet(t) /\ Len(s \o t) = Len(s) + Len(t)
  <1> DEFINE S == ToSet(s) \cup ToSet(t)
  <1>1. s \in Seq(S) /\ t \in Seq(S)
    BY SequenceIs
  <1>2. /\ Len(s) \in Nat /\ DOMAIN s = 1..Len(s) /\ Len(t) \in Nat /\ DOMAIN t = 1..Len(t)
        /\ DOMAIN (s \o t) = 1..(Len(s) + Len(t)) /\ s \o t \in Seq(S) /\ Len(s \o t) = Len(s) + Len(t)
    BY <1>1
  <1>3. /\ \A i \in 1..Len(s) : (s \o t)[i] = s[i]
        /\ \A i \in 1..Len(t) : (s \o t)[Len(s) + i] = t[i]
    BY <1>1, <1>2
  <1>4. \A i \in DOMAIN (s \o t) : i \in 1..Len(s) \/ \E j \in 1..Len(t) : i = Len(s) + j
    <2> TAKE i \in DOMAIN (s \o t)
    <2>1. i \notin 1..Len(s) => i - Len(s) \in 1..Len(t) /\ i = Len(s) + (i - Len(s))
      BY <1>2
    <2> QED BY <2>1
  <1>5. ToSet(s \o t) \subseteq S
    BY <1>2, <1>3, <1>4 DEF ToSet
  <1>6. \A j \in 1..Len(t) : Len(s) + j \in DOMAIN (s \o t)
    BY <1>2
  <1>7. \A i \in 1..Len(s) : i \in DOMAIN (s \o t)
    BY <1>2
  <1>8. S \subseteq ToSet(s \o t)
    BY <1>2, <1>3, <1>6, <1>7 DEF ToSet
  <1>9. ToSet(s \o t) = S
    BY <1>5, <1>8
  <1> QED BY <1>2, <1>9 DEF Sequence

\* A set of numbers that is not empty has a least one.
LEMMA LeastNumber ==
  ASSUME NEW S \in SUBSET Nat, S # {}
  PROVE  \E n \in S : \A m \in S : ~(m < n)
  <1>1. \E n \in S : \A m \in S : ~(<<m, n>> \in OpToRel(<, Nat))
    BY NatLessThanWellFounded, WFMin, Zenon
  <1> QED BY <1>1 DEF OpToRel

\* What flat has for n, if it is right for n - 1.
FlatBy(parts, flat, n) == IF n = 1 THEN parts[n] ELSE flat[n - 1] \o parts[n]

\* FlattenSeq is the last value of a function that adds one part after the other: such functions
\* exist, since there is no least number up to which there is none.
LEMMA FlattenIs ==
  ASSUME NEW parts, Len(parts) \in Nat, Len(parts) # 0
  PROVE  \E flat : /\ FlattenSeq(parts) = flat[Len(parts)]
                   /\ \A n \in 1..Len(parts) : flat[n] = FlatBy(parts, flat, n)
  <1> DEFINE l == Len(parts)
             Upto(flat, m) == \A n \in 1..m : flat[n] = FlatBy(parts, flat, n)
             Fine(m) == \E flat : Upto(flat, m)
             Bad == {m \in 1..l : ~Fine(m)}
             Body(flat) == [n \in 1..l |-> FlatBy(parts, flat, n)]
  <1>1. Fine(l)
    <2> SUFFICES ASSUME ~Fine(l) PROVE FALSE
      OBVIOUS
    <2>1. \E m \in 1..l : ~Fine(m) /\ \A k \in 1..l : k < m => Fine(k)
      <3> HIDE DEF Fine
      <3>1. Bad \in SUBSET Nat /\ Bad # {}
        OBVIOUS
      <3>2. \E m \in Bad : \A k \in Bad : ~(k < m)
        BY <3>1, LeastNumber
      <3> QED BY <3>2
    <2> PICK m \in 1..l : ~Fine(m) /\ \A k \in 1..l : k < m => Fine(k)
      BY <2>1
    <2>2. m # 1
      <3> DEFINE one == [n \in {1} |-> parts[1]]
      <3>1. one[1] = FlatBy(parts, one, 1)
        BY DEF FlatBy
      <3>2. Upto(one, 1)
        BY <3>1
      <3> HIDE DEF one
      <3> QED BY <3>2
    <2>3. m \in Nat /\ m - 1 \in 1..l /\ Fine(m - 1)
      <3> HIDE DEF Fine
      <3> QED BY <2>2
    <2>4. PICK flat : Upto(flat, m - 1)
      BY <2>3
    <2> DEFINE more == [n \in 1..m |-> IF n = m THEN FlatBy(parts, flat, m) ELSE flat[n]]
    <2>5. ASSUME NEW n \in 1..m PROVE more[n] = FlatBy(parts, more, n)
      <3>1. n # 1 => n - 1 \in 1..m /\ more[n - 1] = flat[n - 1]
        BY <2>2, <2>3
      <3>2. FlatBy(parts, more, n) = FlatBy(parts, flat, n)
        BY <3>1 DEF FlatBy
      <3>3. n # m => n \in 1..(m - 1)
        BY <2>3
      <3> QED BY <2>4, <3>2, <3>3
    <2>6. Upto(more, m)
      BY <2>5
    <2> HIDE DEF more
    <2> QED BY <2>6
  <1>2. PICK good : Upto(good, l)
    BY <1>1
  <1> DEFINE all == [n \in 1..l |-> good[n]]
  <1>3. all = Body(all)
    <2>1. ASSUME NEW n \in 1..l PROVE all[n] = FlatBy(parts, all, n)
      <3>1. n # 1 => n - 1 \in 1..l
        OBVIOUS
      <3>2. FlatBy(parts, all, n) = FlatBy(parts, good, n)
        BY <3>1 DEF FlatBy
      <3> QED BY <1>2, <3>2
    <2> QED BY <2>1
  <1> DEFINE f == CHOOSE flat : flat = Body(flat)
  <1>4. FlattenSeq(parts) = f[l]
    BY Zenon DEF FlattenSeq, FlatBy
  <1> HIDE DEF all
  <1>5. \E flat : flat = Body(flat)
    BY <1>3
  <1>6. f = Body(f)
    BY <1>5
  <1> HIDE DEF f
  <1>7. \A n \in 1..l : f[n] = FlatBy(parts, f, n)
    BY <1>6
  <1> QED BY <1>4, <1>7

\* What is in a flattened sequence is what is in its parts.
LEMMA Flattened ==
  ASSUME NEW parts, Sequence(parts), parts # <<>>, \A i \in DOMAIN parts : Sequence(parts[i])
  PROVE  /\ Sequence(FlattenSeq(parts))
         /\ ToSet(FlattenSeq(parts)) = UNION {ToSet(parts[i]) : i \in DOMAIN parts}
  <1>1. Len(parts) \in Nat /\ DOMAIN parts = 1..Len(parts) /\ Len(parts) # 0
    BY SequenceIs
  <1>2. PICK flat : /\ FlattenSeq(parts) = flat[Len(parts)]
                    /\ \A n \in 1..Len(parts) : flat[n] = FlatBy(parts, flat, n)
    BY <1>1, FlattenIs
  <1> DEFINE Right(n) == Sequence(flat[n]) /\ ToSet(flat[n]) = UNION {ToSet(parts[i]) : i \in 1..n}
             Bad == {n \in 1..Len(parts) : ~Right(n)}
  <1>3. Right(Len(parts))
    <2> SUFFICES ASSUME ~Right(Len(parts)) PROVE FALSE
      OBVIOUS
    <2>1. \E m \in 1..Len(parts) : ~Right(m) /\ \A k \in 1..Len(parts) : k < m => Right(k)
      <3> HIDE DEF Right
      <3>1. Bad \in SUBSET Nat /\ Bad # {}
        BY <1>1
      <3>2. \E m \in Bad : \A k \in Bad : ~(k < m)
        BY <3>1, LeastNumber
      <3> QED BY <3>2
    <2> PICK m \in 1..Len(parts) : ~Right(m) /\ \A k \in 1..Len(parts) : k < m => Right(k)
      BY <2>1
    <2>2. CASE m = 1
      <3>1. flat[m] = parts[1] /\ 1..m = {1}
        BY <1>1, <1>2, <2>2 DEF FlatBy
      <3>2. UNION {ToSet(parts[i]) : i \in 1..m} = ToSet(parts[1])
        BY <3>1
      <3> QED BY <1>1, <3>1, <3>2
    <2>3. CASE m # 1
      <3>1. m \in 1..Len(parts) /\ m - 1 \in 1..Len(parts) /\ Sequence(parts[m])
        BY <1>1, <2>3
      <3>2. Right(m - 1)
        <4> HIDE DEF Right
        <4> QED BY <1>1, <3>1
      <3>3. flat[m] = flat[m - 1] \o parts[m]
        BY <1>2, <2>3, <3>1 DEF FlatBy
      <3>4. Sequence(flat[m]) /\ ToSet(flat[m]) = ToSet(flat[m - 1]) \cup ToSet(parts[m])
        BY <3>1, <3>2, <3>3, Joined
      <3>5. 1..m = 1..(m - 1) \cup {m}
        BY <1>1, <3>1
      <3>6. UNION {ToSet(parts[i]) : i \in 1..m}
              = (UNION {ToSet(parts[i]) : i \in 1..(m - 1)}) \cup ToSet(parts[m])
        <4> DEFINE R(i) == ToSet(parts[i])
                   I == 1..m
                   J == 1..(m - 1)
        <4>1. I = J \cup {m}
          BY <3>5
        <4> HIDE DEF R, I, J
        <4>2. UNION {R(i) : i \in I} = (UNION {R(i) : i \in J}) \cup R(m)
          <5>1. \A x : (\E i \in I : x \in R(i)) <=> (\E i \in J : x \in R(i)) \/ x \in R(m)
            BY <4>1, Zenon
          <5> QED BY <5>1
        <4> QED BY <4>2 DEF R, I, J
      <3> QED BY <3>2, <3>4, <3>6
    <2> QED BY <2>2, <2>3
  <1> QED BY <1>1, <1>2, <1>3

(***************************************************************************)
(* Steps: the rows they write and delete                                   *)
(***************************************************************************)

Writing == {"upsert", "create", "update"}

\* The rows a step leaves behind, and those it removes first.
WrittenBy(step) == UNION {step[i].keys : i \in {j \in DOMAIN step : step[j].does \in Writing}}
DeletedBy(step) == UNION {step[i].keys : i \in {j \in DOMAIN step : step[j].does = "delete"}}

\* A step looks for its row first; it deletes rows it has not written; what it deletes it writes
\* again at its end, if at all.
WellOrdered(step) ==
    /\ Len(step) \in Nat /\ Len(step) # 0 /\ DOMAIN step = 1..Len(step)
    /\ \A i \in DOMAIN step : step[i].does \in Writing \cup {"delete", "find"}
    /\ \A i \in DOMAIN step : step[i].does = "find" => i = 1
    /\ \A i \in DOMAIN step : step[i].does = "delete" =>
         \A j \in DOMAIN step : IF j < i THEN step[j].keys \cap step[i].keys = {}
                                         ELSE j > i => j = Len(step) /\ step[j].does \in Writing
    /\ step[1].does = "find" => /\ Len(step) > 1 /\ step[2].does = "create"
                                /\ step[1].keys \subseteq step[2].keys /\ DeletedBy(step) = {}

\* A statement by itself.
S(does, keys, needs) == [does |-> does, keys |-> keys, needs |-> needs]

\* Statement makes a sequence of one statement.
LEMMA StatementIs ==
  ASSUME NEW does, NEW keys, NEW needs
  PROVE  /\ Statement(does, keys, needs) = <<S(does, keys, needs)>>
         /\ S(does, keys, needs).does = does /\ S(does, keys, needs).keys = keys /\ S(does, keys, needs).needs = needs
  BY DEF Statement, S

\* So do the steps of a single statement, but for the creation of no rows.
LEMMA StepsOfOne ==
  ASSUME NEW key, NEW keys, NEW needs
  PROVE  /\ Upsert(key, needs) = <<S("upsert", {key}, needs)>>
         /\ DeleteMany(keys) = <<S("delete", keys, {})>>
         /\ FindUnique(key) = <<S("find", {key}, {})>>
         /\ CreateMany(keys, needs) = IF keys = {} THEN <<>> ELSE <<S("create", keys, needs)>>
         /\ CreateMany({key}, needs) = <<S("create", {key}, needs)>>
  <1>1. {key} # {}
    OBVIOUS
  <1> QED BY <1>1, StatementIs DEF Upsert, DeleteMany, FindUnique, CreateMany

\* A sequence to which one element is added.
LEMMA Added ==
  ASSUME NEW A, NEW s \in Seq(A), NEW x \in A, NEW u, u = s \o <<x>>
  PROVE  Len(u) = Len(s) + 1 /\ u \in Seq(A) /\ u[Len(s) + 1] = x /\ \A i \in 1..Len(s) : u[i] = s[i]
  <1>1. Append(s, x) = s \o <<x>>
    BY AppendIsConcat
  <1>2. /\ Append(s, x) \in Seq(A) /\ Len(Append(s, x)) = Len(s) + 1 /\ Append(s, x)[Len(s) + 1] = x
        /\ \A i \in 1..Len(s) : Append(s, x)[i] = s[i]
    BY AppendProperties
  <1> QED BY <1>1, <1>2

\* Statements that are joined are a tuple: two, three and four of them.
LEMMA Two ==
  ASSUME NEW x, NEW y
  PROVE  <<x>> \o <<y>> = <<x, y>>
  <1> DEFINE A == {x, y}
             s == <<x>>
             u == s \o <<y>>
  <1>0. s \in Seq(A) /\ y \in A
    OBVIOUS
  <1>1. Len(s) = 1 /\ s[1] = x
    OBVIOUS
  <1> HIDE DEF s, A
  <1>2. Len(s) + 1 = 2 /\ 1 \in 1..Len(s)
    BY <1>1
  <1>2a. u = s \o <<y>>
    OBVIOUS
  <1> HIDE DEF u
  <1>3. Len(u) = Len(s) + 1 /\ u \in Seq(A) /\ u[Len(s) + 1] = y /\ \A i \in 1..Len(s) : u[i] = s[i]
    BY <1>0, <1>2a, Added
  <1>4. u[1] = x /\ u[2] = y /\ Len(u) = Len(s) + 1
    BY <1>1, <1>2, <1>3
  <1>5. u = <<x, y>>
    BY <1>2, <1>3, <1>4
  <1> QED BY <1>5 DEF s, u

LEMMA Three ==
  ASSUME NEW x, NEW y, NEW z
  PROVE  <<x, y>> \o <<z>> = <<x, y, z>>
  <1> DEFINE A == {x, y, z}
             s == <<x, y>>
             u == s \o <<z>>
  <1>0. s \in Seq(A) /\ z \in A
    OBVIOUS
  <1>1. Len(s) = 2 /\ s[1] = x /\ s[2] = y
    OBVIOUS
  <1> HIDE DEF s, A
  <1>2. Len(s) + 1 = 3 /\ 1 \in 1..Len(s) /\ 2 \in 1..Len(s)
    BY <1>1
  <1>2a. u = s \o <<z>>
    OBVIOUS
  <1> HIDE DEF u
  <1>3. Len(u) = Len(s) + 1 /\ u \in Seq(A) /\ u[Len(s) + 1] = z /\ \A i \in 1..Len(s) : u[i] = s[i]
    BY <1>0, <1>2a, Added
  <1>4. u[1] = x /\ u[2] = y /\ u[3] = z /\ Len(u) = Len(s) + 1
    BY <1>1, <1>2, <1>3
  <1>5. u = <<x, y, z>>
    BY <1>2, <1>3, <1>4
  <1> QED BY <1>5 DEF s, u

LEMMA Four ==
  ASSUME NEW x, NEW y, NEW z, NEW w
  PROVE  <<x, y, z>> \o <<w>> = <<x, y, z, w>>
  <1> DEFINE A == {x, y, z, w}
             s == <<x, y, z>>
             u == s \o <<w>>
  <1>0. s \in Seq(A) /\ w \in A
    OBVIOUS
  <1>1. Len(s) = 3 /\ s[1] = x /\ s[2] = y /\ s[3] = z
    OBVIOUS
  <1> HIDE DEF s, A
  <1>2. Len(s) + 1 = 4 /\ 1 \in 1..Len(s) /\ 2 \in 1..Len(s) /\ 3 \in 1..Len(s)
    BY <1>1
  <1>2a. u = s \o <<w>>
    OBVIOUS
  <1> HIDE DEF u
  <1>3. Len(u) = Len(s) + 1 /\ u \in Seq(A) /\ u[Len(s) + 1] = w /\ \A i \in 1..Len(s) : u[i] = s[i]
    BY <1>0, <1>2a, Added
  <1>4. u[1] = x /\ u[2] = y /\ u[3] = z /\ u[4] = w /\ Len(u) = Len(s) + 1
    BY <1>1, <1>2, <1>3
  <1>5. u = <<x, y, z, w>>
    BY <1>2, <1>3, <1>4
  <1> QED BY <1>5 DEF s, u

\* What each kind of step is made of, and that its rows are in good order.
UpsertShape(step, key, needs) ==
    /\ Len(step) = 1
    /\ step[1].does = "upsert" /\ step[1].keys = {key} /\ step[1].needs = needs
    /\ WellOrdered(step) /\ WrittenBy(step) = {key} /\ DeletedBy(step) = {}

\* Each step has the shape of its kind: one that upserts a row,
LEMMA UpsertStep ==
  ASSUME NEW key, NEW needs, NEW step, step = Upsert(key, needs)
  PROVE  UpsertShape(step, key, needs)
  <1>1. step = <<S("upsert", {key}, needs)>>
    BY StepsOfOne
  <1>2. Len(step) = 1 /\ DOMAIN step = 1..1 /\ step[1] = S("upsert", {key}, needs)
    BY <1>1
  <1>3. step[1].does = "upsert" /\ step[1].keys = {key} /\ step[1].needs = needs
    BY <1>2, StatementIs
  <1>4. 1..1 = {1}
    OBVIOUS
  <1>5. {j \in DOMAIN step : step[j].does \in Writing} = {1} /\ {j \in DOMAIN step : step[j].does = "delete"} = {}
    BY <1>2, <1>3, <1>4 DEF Writing
  <1>6. WrittenBy(step) = {key} /\ DeletedBy(step) = {}
    BY <1>3, <1>5 DEF WrittenBy, DeletedBy
  <1>7. WellOrdered(step)
    BY <1>2, <1>3, <1>4 DEF WellOrdered, Writing
  <1> QED BY <1>2, <1>3, <1>6, <1>7 DEF UpsertShape

RuleShape(step, rule, set, run) ==
    /\ Len(step) = 3
    /\ step[1] = S("upsert", {<<"rule", rule>>}, {<<"set", set>>})
    /\ step[2] = S("delete", Sources(rule), {})
    /\ step[3] = S("create", {Source(rule, run)}, {<<"rule", rule>>})
    /\ WellOrdered(step)
    /\ WrittenBy(step) = {<<"rule", rule>>, Source(rule, run)} /\ DeletedBy(step) = Sources(rule)

\* one that seeds a rule,
LEMMA RuleStep ==
  ASSUME NEW rule, NEW set, NEW run, NEW step, step = SeedRule(rule, set, run)
  PROVE  RuleShape(step, rule, set, run)
  <1>1. step = <<S("upsert", {<<"rule", rule>>}, {<<"set", set>>}), S("delete", Sources(rule), {}),
                 S("create", {Source(rule, run)}, {<<"rule", rule>>})>>
    <2>1. {Source(rule, run)} # {}
      OBVIOUS
    <2>2. Upsert(<<"rule", rule>>, {<<"set", set>>}) = <<S("upsert", {<<"rule", rule>>}, {<<"set", set>>})>>
      BY StepsOfOne
    <2>3. DeleteMany(Sources(rule)) = <<S("delete", Sources(rule), {})>>
      BY StepsOfOne
    <2>4. CreateMany({Source(rule, run)}, {<<"rule", rule>>}) = <<S("create", {Source(rule, run)}, {<<"rule", rule>>})>>
      BY StepsOfOne
    <2> QED BY <2>2, <2>3, <2>4, Two, Three DEF SeedRule
  <1>2. Len(step) = 3 /\ DOMAIN step = 1..3
    BY <1>1
  <1>3. /\ step[1] = S("upsert", {<<"rule", rule>>}, {<<"set", set>>})
        /\ step[2] = S("delete", Sources(rule), {})
        /\ step[3] = S("create", {Source(rule, run)}, {<<"rule", rule>>})
    BY <1>1
  <1>4. /\ step[1].does = "upsert" /\ step[1].keys = {<<"rule", rule>>}
        /\ step[2].does = "delete" /\ step[2].keys = Sources(rule)
        /\ step[3].does = "create" /\ step[3].keys = {Source(rule, run)}
    BY <1>3, StatementIs
  <1>5. {j \in DOMAIN step : step[j].does \in Writing} = {1, 3} /\ {j \in DOMAIN step : step[j].does = "delete"} = {2}
    BY <1>2, <1>4 DEF Writing
  <1>6. WrittenBy(step) = {<<"rule", rule>>, Source(rule, run)} /\ DeletedBy(step) = Sources(rule)
    <2>1. WrittenBy(step) = step[1].keys \cup step[3].keys /\ DeletedBy(step) = step[2].keys
      BY <1>5 DEF WrittenBy, DeletedBy
    <2> QED BY <1>4, <2>1
  <1>7. step[1].keys \cap step[2].keys = {}
    BY <1>4 DEF Sources, Source
  <1>8. WellOrdered(step)
    BY <1>2, <1>4, <1>7 DEF WellOrdered, Writing
  <1> QED BY <1>2, <1>3, <1>6, <1>8 DEF RuleShape

NodeNeeds(n) == {<<"component", c[1]>> : c \in {d \in ToSet(DemoComponents) : d[1] = n}}

NodeShape(step, n) ==
    /\ Len(step) = 4
    /\ step[1] = S("find", {<<"node", n>>}, {})
    /\ step[2] = S("create", {<<"node", n>>}, NodeNeeds(n))
    /\ step[3] = S("create", {<<"revision", n>>}, {<<"node", n>>})
    /\ step[4] = S("update", {<<"current", n>>}, {<<"node", n>>, <<"revision", n>>})
    /\ WellOrdered(step)
    /\ WrittenBy(step) = {<<"node", n>>, <<"revision", n>>, <<"current", n>>} /\ DeletedBy(step) = {}

\* one that creates a node with its revision,
LEMMA NodeStep ==
  ASSUME NEW n, NEW step, step = CreateNodeWithRevision(n)
  PROVE  NodeShape(step, n)
  <1> DEFINE s1 == S("find", {<<"node", n>>}, {})
             s2 == S("create", {<<"node", n>>}, NodeNeeds(n))
             s3 == S("create", {<<"revision", n>>}, {<<"node", n>>})
             s4 == S("update", {<<"current", n>>}, {<<"node", n>>, <<"revision", n>>})
  <1>1. step = <<s1, s2, s3, s4>>
    <2>1. {<<"node", n>>} # {} /\ {<<"revision", n>>} # {}
      OBVIOUS
    <2>2. FindUnique(<<"node", n>>) = <<s1>> /\ CreateMany({<<"node", n>>}, NodeNeeds(n)) = <<s2>>
      BY StepsOfOne
    <2>3. CreateMany({<<"revision", n>>}, {<<"node", n>>}) = <<s3>>
      BY StepsOfOne
    <2>4. Statement("update", {<<"current", n>>}, {<<"node", n>>, <<"revision", n>>}) = <<s4>>
      BY StatementIs
    <2>5. step = FindUnique(<<"node", n>>) \o CreateMany({<<"node", n>>}, NodeNeeds(n))
                 \o CreateMany({<<"revision", n>>}, {<<"node", n>>})
                 \o Statement("update", {<<"current", n>>}, {<<"node", n>>, <<"revision", n>>})
      BY DEF CreateNodeWithRevision, NodeNeeds
    <2> HIDE DEF s1, s2, s3, s4
    <2>6. <<s1>> \o <<s2>> = <<s1, s2>> /\ <<s1, s2>> \o <<s3>> = <<s1, s2, s3>>
      BY Two, Three
    <2>7. <<s1, s2, s3>> \o <<s4>> = <<s1, s2, s3, s4>>
      BY Four
    <2> QED BY <2>2, <2>3, <2>4, <2>5, <2>6, <2>7
  <1>2. Len(step) = 4 /\ DOMAIN step = 1..4
    BY <1>1
  <1>3. step[1] = s1 /\ step[2] = s2 /\ step[3] = s3 /\ step[4] = s4
    BY <1>1
  <1>4. /\ step[1].does = "find" /\ step[1].keys = {<<"node", n>>}
        /\ step[2].does = "create" /\ step[2].keys = {<<"node", n>>}
        /\ step[3].does = "create" /\ step[3].keys = {<<"revision", n>>}
        /\ step[4].does = "update" /\ step[4].keys = {<<"current", n>>}
    BY <1>3, StatementIs
  <1> HIDE DEF s1, s2, s3, s4
  <1>5. {j \in DOMAIN step : step[j].does \in Writing} = {2, 3, 4} /\ {j \in DOMAIN step : step[j].does = "delete"} = {}
    BY <1>2, <1>4 DEF Writing
  <1>6. WrittenBy(step) = {<<"node", n>>, <<"revision", n>>, <<"current", n>>} /\ DeletedBy(step) = {}
    <2>1. WrittenBy(step) = step[2].keys \cup step[3].keys \cup step[4].keys /\ DeletedBy(step) = {}
      BY <1>5 DEF WrittenBy, DeletedBy
    <2> QED BY <1>4, <2>1
  <1>7. WellOrdered(step)
    BY <1>2, <1>4, <1>6 DEF WellOrdered, Writing
  <1> QED BY <1>2, <1>3, <1>6, <1>7 DEF NodeShape, s1, s2, s3, s4
ChildrenShape(step, kind, audit) ==
    /\ Len(step) \in {1, 2}
    /\ step[1] = S("delete", Children(kind, audit), {})
    /\ Len(step) = 2 => step[2] = S("create", Children(kind, audit), {<<"audit", audit.id>>})
    /\ WellOrdered(step)
    /\ WrittenBy(step) = Children(kind, audit) /\ DeletedBy(step) = Children(kind, audit)

\* one that replaces the rows an audit has of one kind,
LEMMA ChildrenStep ==
  ASSUME NEW kind, NEW audit, NEW step, step = SeedChildren(kind, audit)
  PROVE  ChildrenShape(step, kind, audit)
  <1> DEFINE these == Children(kind, audit)
             s1 == S("delete", these, {})
             s2 == S("create", these, {<<"audit", audit.id>>})
  <1>0. s1.does = "delete" /\ s1.keys = these /\ s2.does = "create" /\ s2.keys = these
    BY StatementIs
  <1>1. CASE these = {}
    <2>1. step = <<s1>>
      <3>1. DeleteMany(these) = <<s1>> /\ CreateMany(these, {<<"audit", audit.id>>}) = <<>>
        BY <1>1, StepsOfOne
      <3>2. step = <<s1>> \o <<>>
        BY <3>1 DEF SeedChildren
      <3> HIDE DEF s1
      <3>3. <<s1>> \in Seq({s1})
        OBVIOUS
      <3> QED BY <3>2, <3>3, ConcatEmptySeq
    <2> HIDE DEF s1, s2
    <2>2. Len(step) = 1 /\ DOMAIN step = 1..1 /\ step[1] = s1 /\ 1..1 = {1}
      BY <2>1
    <2>3. {j \in DOMAIN step : step[j].does \in Writing} = {} /\ {j \in DOMAIN step : step[j].does = "delete"} = {1}
      BY <1>0, <2>2 DEF Writing
    <2>4. WrittenBy(step) = {} /\ DeletedBy(step) = step[1].keys
      BY <2>3 DEF WrittenBy, DeletedBy
    <2>5. WellOrdered(step)
      BY <1>0, <2>2 DEF WellOrdered, Writing
    <2> QED BY <1>0, <1>1, <2>2, <2>4, <2>5 DEF s1, ChildrenShape
  <1>2. CASE these # {}
    <2>1. step = <<s1, s2>>
      <3>1. DeleteMany(these) = <<s1>> /\ CreateMany(these, {<<"audit", audit.id>>}) = <<s2>>
        BY <1>2, StepsOfOne
      <3>2. step = <<s1>> \o <<s2>>
        BY <3>1 DEF SeedChildren
      <3> HIDE DEF s1, s2
      <3> QED BY <3>2, Two
    <2> HIDE DEF s1, s2
    <2>2. Len(step) = 2 /\ DOMAIN step = 1..2 /\ step[1] = s1 /\ step[2] = s2
      BY <2>1
    <2>3. {j \in DOMAIN step : step[j].does \in Writing} = {2} /\ {j \in DOMAIN step : step[j].does = "delete"} = {1}
      BY <1>0, <2>2 DEF Writing
    <2>4. WrittenBy(step) = step[2].keys /\ DeletedBy(step) = step[1].keys
      BY <2>3 DEF WrittenBy, DeletedBy
    <2>5. WellOrdered(step)
      BY <1>0, <2>2 DEF WellOrdered, Writing
    <2> QED BY <1>0, <1>2, <2>2, <2>4, <2>5 DEF s1, s2, ChildrenShape
  <1> QED BY <1>1, <1>2

\* A row, or a rule set with all that belongs to it, is looked for and else created.
Ensured(key, keys, needs) == FindUnique(key) \o CreateMany(keys, needs)

EnsureShape(step, key, keys, needs) ==
    /\ Len(step) = 2
    /\ step[1] = S("find", {key}, {})
    /\ step[2] = S("create", keys, needs)
    /\ WellOrdered(step) /\ WrittenBy(step) = keys /\ DeletedBy(step) = {}

\* and one that creates rows unless it finds the first of them.
LEMMA EnsureStep ==
  ASSUME NEW key, NEW keys, NEW needs, key \in keys, NEW step, step = Ensured(key, keys, needs)
  PROVE  EnsureShape(step, key, keys, needs)
  <1> DEFINE s1 == S("find", {key}, {})
             s2 == S("create", keys, needs)
  <1>0. s1.does = "find" /\ s1.keys = {key} /\ s2.does = "create" /\ s2.keys = keys
    BY StatementIs
  <1>1. step = <<s1, s2>>
    <2>1. keys # {}
      OBVIOUS
    <2>2. FindUnique(key) = <<s1>> /\ CreateMany(keys, needs) = <<s2>>
      BY <2>1, StepsOfOne
    <2>3. step = <<s1>> \o <<s2>>
      BY <2>2 DEF Ensured
    <2> HIDE DEF s1, s2
    <2> QED BY <2>3, Two
  <1> HIDE DEF s1, s2
  <1>2. Len(step) = 2 /\ DOMAIN step = 1..2 /\ step[1] = s1 /\ step[2] = s2
    BY <1>1
  <1>3. {j \in DOMAIN step : step[j].does \in Writing} = {2} /\ {j \in DOMAIN step : step[j].does = "delete"} = {}
    BY <1>0, <1>2 DEF Writing
  <1>4. WrittenBy(step) = step[2].keys /\ DeletedBy(step) = {}
    BY <1>3 DEF WrittenBy, DeletedBy
  <1>5. WellOrdered(step)
    BY <1>0, <1>2, <1>4 DEF WellOrdered, Writing
  <1> QED BY <1>0, <1>2, <1>4, <1>5 DEF EnsureShape, s1, s2

(***************************************************************************)
(* Scripts: the steps there are in them                                    *)
(***************************************************************************)

ChildKinds == {"checklist", "finding", "action"}

\* The steps of seed.ts, by what they are for, and those of seed-init.ts.
CatalogueSteps ==
    {Upsert(<<"policy">>, {}), Upsert(<<"tenant">>, {<<"policy">>}), Upsert(<<"project">>, {<<"tenant">>})}
    \cup {Upsert(<<"template", t>>, {}) : t \in ToSet(Templates)}
    \cup {Upsert(<<"type", t>>, {}) : t \in ToSet(ComponentTypes)}
    \cup {Upsert(<<"component", c[1]>>, {<<"project">>, <<"type", c[2]>>}) : c \in ToSet(DemoComponents)}
SetSteps      == {Upsert(<<"set", set[1]>>, {}) : set \in ToSet(RuleSets)}
RuleSteps(run) == UNION {{SeedRule(rule, set[1], run) : rule \in ToSet(set[2])} : set \in ToSet(RuleSets)}
NodeSteps     == {CreateNodeWithRevision(n) : n \in ToSet(DemoNodes)}
EdgeSteps     == {EnsureNodeEdge(e) : e \in ToSet(DemoEdges)}
AuditSteps    == {Upsert(<<"audit", audit.id>>, {<<"project">>}) : audit \in ToSet(DemoAudits)}
ChildSteps    == UNION {{SeedChildren(kind, audit) : kind \in ChildKinds} : audit \in ToSet(DemoAudits)}

SeedSteps(run) == CatalogueSteps \cup SetSteps \cup RuleSteps(run) \cup NodeSteps \cup EdgeSteps \cup AuditSteps \cup ChildSteps

DefaultSteps == {FindUnique(<<"default tenant">>) \o CreateMany({<<"default tenant">>}, {}),
                 FindUnique(<<"default project">>) \o CreateMany({<<"default project">>}, {<<"default tenant">>})}
InitSteps(run) == DefaultSteps \cup {EnsureRuleSet(set, run) : set \in ToSet(InitRuleSets)}

\* A single step is a sequence.
LEMMA OneStep ==
  ASSUME NEW step
  PROVE  Sequence(<<step>>) /\ ToSet(<<step>>) = {step} /\ <<step>> # <<>>
  <1> DEFINE s == <<step>>
  <1>1. s \in Seq({step}) /\ DOMAIN s = 1..1 /\ s[1] = step /\ 1..1 = {1} /\ s # <<>>
    OBVIOUS
  <1> HIDE DEF s
  <1>2. ToSet(s) = {step}
    BY <1>1 DEF ToSet
  <1> QED BY <1>1, <1>2 DEF Sequence, s

\* Steps that correspond to the elements of a sequence.
LEMMA Mapped ==
  ASSUME NEW seq, Sequence(seq), seq # <<>>, NEW f, NEW s, s = [i \in DOMAIN seq |-> f[seq[i]]]
  PROVE  Sequence(s) /\ ToSet(s) = {f[x] : x \in ToSet(seq)} /\ s # <<>> /\ DOMAIN s = DOMAIN seq
  <1>1. Len(seq) \in Nat /\ DOMAIN seq = 1..Len(seq) /\ Len(seq) # 0
    BY SequenceIs
  <1>2. DOMAIN s = 1..Len(seq) /\ s = [i \in 1..Len(seq) |-> s[i]] /\ \A i \in DOMAIN s : s[i] = f[seq[i]]
    BY <1>1
  <1>3. Sequence(s)
    BY <1>1, <1>2, Enumerated
  <1>4. ToSet(s) = {f[x] : x \in ToSet(seq)}
    BY <1>1, <1>2 DEF ToSet
  <1>5. s # <<>>
    BY <1>1, <1>2
  <1> QED BY <1>1, <1>2, <1>3, <1>4, <1>5

\* What is declared are sequences that are not empty,
LEMMA Declared ==
  /\ Sequence(Templates) /\ Templates # <<>> /\ Sequence(ComponentTypes) /\ ComponentTypes # <<>>
  /\ Sequence(DemoComponents) /\ DemoComponents # <<>> /\ Sequence(DemoAudits) /\ DemoAudits # <<>>
  /\ Sequence(RuleSets) /\ RuleSets # <<>> /\ Sequence(InitRuleSets) /\ InitRuleSets # <<>>
  <1>1. Sequence(Templates) /\ Templates # <<>>
    BY DEF Templates, Sequence, ToSet
  <1>2. Sequence(ComponentTypes) /\ ComponentTypes # <<>>
    BY DEF ComponentTypes, Sequence, ToSet
  <1>3. Sequence(DemoComponents) /\ DemoComponents # <<>>
    BY DEF DemoComponents, Sequence, ToSet
  <1>4. Sequence(DemoAudits) /\ DemoAudits # <<>>
    BY DEF DemoAudits, Sequence, ToSet
  <1>5. Sequence(RuleSets) /\ RuleSets # <<>>
    BY DEF RuleSets, Sequence, ToSet
  <1>6. Sequence(InitRuleSets) /\ InitRuleSets # <<>>
    BY DEF InitRuleSets, Sequence, ToSet
  <1> QED BY <1>1, <1>2, <1>3, <1>4, <1>5, <1>6

\* A rule set, the sets of its rules and an audit.
LEMMA DeclaredRules ==
  /\ \A set \in ToSet(RuleSets) : Sequence(set[2]) /\ set[2] # <<>>
  /\ \A set \in ToSet(InitRuleSets) : Sequence(set[2]) /\ set[2] # <<>>
  <1>1. ASSUME NEW x, NEW y PROVE Sequence(<<x, y>>) /\ <<x, y>> # <<>>
    BY DEF Sequence, ToSet
  <1>2. ASSUME NEW x PROVE Sequence(<<x>>) /\ <<x>> # <<>>
    BY OneStep
  <1>3. ASSUME NEW x, NEW y, NEW z PROVE Sequence(<<x, y, z>>) /\ <<x, y, z>> # <<>>
    BY DEF Sequence, ToSet
  <1>4. ASSUME NEW set \in ToSet(RuleSets) PROVE Sequence(set[2]) /\ set[2] # <<>>
    <2>1. \/ set[2] = <<"TEK17-6-3", "TEK17-8-1">> \/ set[2] = <<"PED-ANNEX-I-2.2">>
          \/ set[2] = <<"NSEN378-ALARM", "NSEN378-VENTILATION">> \/ set[2] = <<"TT-COMP-REDUNDANCY", "TT-GAS-SENSOR">>
      BY DEF ToSet, RuleSets
    <2> QED BY <1>1, <1>2, <2>1
  <1>5. ASSUME NEW set \in ToSet(InitRuleSets) PROVE Sequence(set[2]) /\ set[2] # <<>>
    <2>1. \/ set[2] = <<"REQ_FDV_PSVALUE", "REQ_CE_PED", "REQ_RISK_ASSESSMENT">>
          \/ set[2] = <<"REQ_CUSTOMER_CONTACT", "REQ_MAINTENANCE_TASK">>
      BY DEF ToSet, InitRuleSets
    <2> QED BY <1>1, <1>3, <2>1
  <1> QED BY <1>4, <1>5

\* nodes and edges too, and edges join nodes that are declared.
LEMMA DeclaredNodes ==
  /\ Sequence(DemoNodes) /\ DemoNodes # <<>> /\ Sequence(DemoEdges) /\ DemoEdges # <<>>
  /\ \A e \in ToSet(DemoEdges) : e[1] \in ToSet(DemoNodes) /\ e[2] \in ToSet(DemoNodes)
  <1> DEFINE names == [i \in DOMAIN DemoComponents |-> DemoComponents[i][1]]
             contains == [i \in DOMAIN DemoComponents |-> <<"project", DemoComponents[i][1], "CONTAINS">>]
             feeds == [i \in DOMAIN DemoComponents |-> <<DemoComponents[i][1], "fdv", "FEEDS">>]
             depends == << <<"fdv", "ce", "DEPENDS_ON">>, <<"fdv", "risk", "DEPENDS_ON">> >>
             docs3 == <<"fdv", "ce", "risk">>
  <1>1. Len(DemoComponents) \in Nat /\ DOMAIN DemoComponents = 1..Len(DemoComponents)
    BY Declared, SequenceIs
  <1>2. DemoNodes = (<<"project">> \o names) \o docs3 /\ DemoEdges = (contains \o feeds) \o depends
    BY DEF DemoNodes, DemoEdges
  <1>3. /\ DOMAIN names = 1..Len(DemoComponents) /\ DOMAIN contains = 1..Len(DemoComponents)
        /\ DOMAIN feeds = 1..Len(DemoComponents)
    BY <1>1
  <1>4. Sequence(names)
    BY <1>1, <1>3, Enumerated
  <1>5. Sequence(contains)
    BY <1>1, <1>3, Enumerated
  <1>6. Sequence(feeds)
    BY <1>1, <1>3, Enumerated
  <1>7. Sequence(depends) /\ ToSet(depends) = {<<"fdv", "ce", "DEPENDS_ON">>, <<"fdv", "risk", "DEPENDS_ON">>} /\ Len(depends) = 2
    BY DEF Sequence, ToSet
  <1>8. Sequence(docs3) /\ ToSet(docs3) = {"fdv", "ce", "risk"} /\ Len(docs3) = 3
    BY DEF Sequence, ToSet
  <1>9. ToSet(contains) = {<<"project", x, "CONTAINS">> : x \in ToSet(names)} /\ ToSet(feeds) = {<<x, "fdv", "FEEDS">> : x \in ToSet(names)}
    BY <1>3 DEF ToSet
  <1> HIDE DEF names, contains, feeds, depends, docs3
  <1>10. /\ Sequence(DemoNodes) /\ ToSet(DemoNodes) = ({"project"} \cup ToSet(names)) \cup ToSet(docs3)
    <2>1. Sequence(<<"project">>) /\ ToSet(<<"project">>) = {"project"}
      BY OneStep
    <2>2. Sequence(<<"project">> \o names) /\ ToSet(<<"project">> \o names) = {"project"} \cup ToSet(names)
      BY <1>4, <2>1, Joined
    <2> QED BY <1>2, <1>8, <2>2, Joined
  <1>11. /\ Sequence(DemoEdges) /\ ToSet(DemoEdges) = (ToSet(contains) \cup ToSet(feeds)) \cup ToSet(depends)
    BY <1>2, <1>5, <1>6, <1>7, Joined
  <1>12. DemoNodes # <<>> /\ DemoEdges # <<>>
    <2>1. "project" \in ToSet(DemoNodes) /\ <<"fdv", "ce", "DEPENDS_ON">> \in ToSet(DemoEdges)
      BY <1>7, <1>10, <1>11
    <2>2. ToSet(<<>>) = {}
      BY DEF ToSet
    <2> QED BY <2>1, <2>2
  <1>13. ASSUME NEW e \in ToSet(DemoEdges) PROVE e[1] \in ToSet(DemoNodes) /\ e[2] \in ToSet(DemoNodes)
    <2>1. CASE e \in ToSet(contains)
      <3>1. PICK x \in ToSet(names) : e = <<"project", x, "CONTAINS">>
        BY <1>9, <2>1
      <3> QED BY <1>10, <3>1
    <2>2. CASE e \in ToSet(feeds)
      <3>1. PICK x \in ToSet(names) : e = <<x, "fdv", "FEEDS">>
        BY <1>9, <2>2
      <3> QED BY <1>8, <1>10, <3>1
    <2>3. CASE e \in ToSet(depends)
      BY <1>7, <1>8, <1>10, <2>3
    <2> QED BY <1>11, <2>1, <2>2, <2>3
  <1> QED BY <1>10, <1>11, <1>12, <1>13

\* The steps of each part of seed.ts are those, and no other: its rule sets and rules,
LEMMA SetsScript ==
  ASSUME NEW run
  PROVE  Sequence(SeedRuleSets(run)) /\ ToSet(SeedRuleSets(run)) = SetSteps \cup RuleSteps(run)
  <1> DEFINE Part(set) == <<Upsert(<<"set", set[1]>>, {})>> \o EachOf(set[2], LAMBDA rule : SeedRule(rule, set[1], run))
             Steps(set) == {Upsert(<<"set", set[1]>>, {})} \cup {SeedRule(rule, set[1], run) : rule \in ToSet(set[2])}
             f == [set \in ToSet(RuleSets) |-> Part(set)]
             parts == EachOf(RuleSets, LAMBDA set :
                        <<Upsert(<<"set", set[1]>>, {})>> \o EachOf(set[2], LAMBDA rule : SeedRule(rule, set[1], run)))
  <1>1. ASSUME NEW set \in ToSet(RuleSets) PROVE Sequence(Part(set)) /\ ToSet(Part(set)) = Steps(set)
    <2> DEFINE g == [rule \in ToSet(set[2]) |-> SeedRule(rule, set[1], run)]
               each == EachOf(set[2], LAMBDA rule : SeedRule(rule, set[1], run))
               first == <<Upsert(<<"set", set[1]>>, {})>>
    <2>1. Sequence(set[2]) /\ set[2] # <<>>
      BY DeclaredRules
    <2>2. \A i \in DOMAIN set[2] : set[2][i] \in ToSet(set[2])
      BY DEF ToSet
    <2>3. each = [i \in DOMAIN set[2] |-> g[set[2][i]]]
      BY <2>2 DEF EachOf
    <2>4. \A x \in ToSet(set[2]) : g[x] = SeedRule(x, set[1], run)
      OBVIOUS
    <2>5. Part(set) = first \o each /\ Sequence(first) /\ ToSet(first) = {Upsert(<<"set", set[1]>>, {})}
      BY OneStep
    <2> HIDE DEF g, each, first, Part
    <2>6. Sequence(each) /\ ToSet(each) = {g[x] : x \in ToSet(set[2])}
      BY <2>1, <2>3, Mapped
    <2>7. ToSet(each) = {SeedRule(rule, set[1], run) : rule \in ToSet(set[2])}
      BY <2>4, <2>6
    <2> QED BY <2>5, <2>6, <2>7, Joined
  <1>2. \A i \in DOMAIN RuleSets : RuleSets[i] \in ToSet(RuleSets)
    BY DEF ToSet
  <1>3. parts = [i \in DOMAIN RuleSets |-> f[RuleSets[i]]]
    BY <1>2 DEF EachOf
  <1>4. \A set \in ToSet(RuleSets) : f[set] = Part(set)
    OBVIOUS
  <1>5. SeedRuleSets(run) = FlattenSeq(parts)
    BY DEF SeedRuleSets
  <1> HIDE DEF Part, f, parts
  <1>6. Sequence(parts) /\ ToSet(parts) = {f[x] : x \in ToSet(RuleSets)} /\ parts # <<>> /\ DOMAIN parts = DOMAIN RuleSets
    BY <1>3, Declared, Mapped
  <1>7. \A i \in DOMAIN parts : Sequence(parts[i]) /\ ToSet(parts[i]) = Steps(RuleSets[i])
    BY <1>1, <1>2, <1>3, <1>4, <1>6
  <1>8. Sequence(FlattenSeq(parts)) /\ ToSet(FlattenSeq(parts)) = UNION {ToSet(parts[i]) : i \in DOMAIN parts}
    BY <1>6, <1>7, Flattened
  <1>9. UNION {ToSet(parts[i]) : i \in DOMAIN parts} = UNION {Steps(set) : set \in ToSet(RuleSets)}
    <2>1. UNION {ToSet(parts[i]) : i \in DOMAIN parts} = UNION {Steps(RuleSets[i]) : i \in DOMAIN RuleSets}
      BY <1>6, <1>7
    <2>2. ToSet(RuleSets) = {RuleSets[i] : i \in DOMAIN RuleSets}
      BY DEF ToSet
    <2> HIDE DEF Steps
    <2> QED BY <2>1, <2>2
  <1>10. UNION {Steps(set) : set \in ToSet(RuleSets)} = SetSteps \cup RuleSteps(run)
    BY DEF SetSteps, RuleSteps
  <1> QED BY <1>5, <1>8, <1>9, <1>10

\* its audits,
LEMMA AuditsScript ==
  Sequence(SeedAudits) /\ ToSet(SeedAudits) = AuditSteps \cup ChildSteps
  <1> DEFINE kinds == <<"checklist", "finding", "action">>
             Part(audit) == <<Upsert(<<"audit", audit.id>>, {<<"project">>})>> \o EachOf(kinds, LAMBDA kind : SeedChildren(kind, audit))
             Steps(audit) == {Upsert(<<"audit", audit.id>>, {<<"project">>})} \cup {SeedChildren(kind, audit) : kind \in ChildKinds}
             f == [audit \in ToSet(DemoAudits) |-> Part(audit)]
             parts == EachOf(DemoAudits, LAMBDA audit :
                        <<Upsert(<<"audit", audit.id>>, {<<"project">>})>> \o EachOf(kinds, LAMBDA kind : SeedChildren(kind, audit)))
  <1>0. Sequence(kinds) /\ kinds # <<>> /\ ToSet(kinds) = ChildKinds
    BY DEF Sequence, ToSet, ChildKinds
  <1>1. ASSUME NEW audit \in ToSet(DemoAudits) PROVE Sequence(Part(audit)) /\ ToSet(Part(audit)) = Steps(audit)
    <2> DEFINE g == [kind \in ChildKinds |-> SeedChildren(kind, audit)]
               each == EachOf(kinds, LAMBDA kind : SeedChildren(kind, audit))
               first == <<Upsert(<<"audit", audit.id>>, {<<"project">>})>>
    <2>2. \A i \in DOMAIN kinds : kinds[i] \in ChildKinds
      BY <1>0 DEF ToSet
    <2>5. Part(audit) = first \o each /\ Sequence(first) /\ ToSet(first) = {Upsert(<<"audit", audit.id>>, {<<"project">>})}
      BY OneStep
    <2> HIDE DEF kinds
    <2>3. each = [i \in DOMAIN kinds |-> g[kinds[i]]]
      BY <2>2 DEF EachOf
    <2>4. \A x \in ChildKinds : g[x] = SeedChildren(x, audit)
      OBVIOUS
    <2> HIDE DEF g, each, first, Part
    <2>6. Sequence(each) /\ ToSet(each) = {g[x] : x \in ChildKinds}
      BY <1>0, <2>3, Mapped
    <2>7. ToSet(each) = {SeedChildren(kind, audit) : kind \in ChildKinds}
      BY <2>4, <2>6
    <2> QED BY <2>5, <2>6, <2>7, Joined
  <1>2. \A i \in DOMAIN DemoAudits : DemoAudits[i] \in ToSet(DemoAudits)
    BY DEF ToSet
  <1>3. parts = [i \in DOMAIN DemoAudits |-> f[DemoAudits[i]]]
    BY <1>2 DEF EachOf
  <1>4. \A audit \in ToSet(DemoAudits) : f[audit] = Part(audit)
    OBVIOUS
  <1>5. SeedAudits = FlattenSeq(parts)
    BY DEF SeedAudits
  <1> HIDE DEF Part, f, parts
  <1>6. Sequence(parts) /\ ToSet(parts) = {f[x] : x \in ToSet(DemoAudits)} /\ parts # <<>> /\ DOMAIN parts = DOMAIN DemoAudits
    BY <1>3, Declared, Mapped
  <1>7. \A i \in DOMAIN parts : Sequence(parts[i]) /\ ToSet(parts[i]) = Steps(DemoAudits[i])
    BY <1>1, <1>2, <1>3, <1>4, <1>6
  <1>8. Sequence(FlattenSeq(parts)) /\ ToSet(FlattenSeq(parts)) = UNION {ToSet(parts[i]) : i \in DOMAIN parts}
    BY <1>6, <1>7, Flattened
  <1>9. UNION {ToSet(parts[i]) : i \in DOMAIN parts} = UNION {Steps(audit) : audit \in ToSet(DemoAudits)}
    <2>1. UNION {ToSet(parts[i]) : i \in DOMAIN parts} = UNION {Steps(DemoAudits[i]) : i \in DOMAIN DemoAudits}
      BY <1>6, <1>7
    <2>2. ToSet(DemoAudits) = {DemoAudits[i] : i \in DOMAIN DemoAudits}
      BY DEF ToSet
    <2> HIDE DEF Steps
    <2> QED BY <2>1, <2>2
  <1>10. UNION {Steps(audit) : audit \in ToSet(DemoAudits)} = AuditSteps \cup ChildSteps
    BY DEF AuditSteps, ChildSteps
  <1> QED BY <1>5, <1>8, <1>9, <1>10

\* its project,
LEMMA ProjectScript ==
  /\ Sequence(SeedDemoProject)
  /\ ToSet(SeedDemoProject) = {Upsert(<<"project">>, {<<"tenant">>})}
       \cup {Upsert(<<"component", c[1]>>, {<<"project">>, <<"type", c[2]>>}) : c \in ToSet(DemoComponents)}
       \cup NodeSteps \cup EdgeSteps
  <1> DEFINE first == <<Upsert(<<"project">>, {<<"tenant">>})>>
             parts == EachOf(DemoComponents, LAMBDA c : Upsert(<<"component", c[1]>>, {<<"project">>, <<"type", c[2]>>}))
             nodes == EachOf(DemoNodes, CreateNodeWithRevision)
             edges == EachOf(DemoEdges, EnsureNodeEdge)
  <1>1. Sequence(first) /\ ToSet(first) = {Upsert(<<"project">>, {<<"tenant">>})}
    BY OneStep
  <1>2. /\ Sequence(parts)
        /\ ToSet(parts) = {Upsert(<<"component", c[1]>>, {<<"project">>, <<"type", c[2]>>}) : c \in ToSet(DemoComponents)}
    <2> DEFINE f == [c \in ToSet(DemoComponents) |-> Upsert(<<"component", c[1]>>, {<<"project">>, <<"type", c[2]>>})]
    <2>1. \A i \in DOMAIN DemoComponents : DemoComponents[i] \in ToSet(DemoComponents)
      BY DEF ToSet
    <2>2. parts = [i \in DOMAIN DemoComponents |-> f[DemoComponents[i]]]
      BY <2>1 DEF EachOf
    <2>3. \A c \in ToSet(DemoComponents) : f[c] = Upsert(<<"component", c[1]>>, {<<"project">>, <<"type", c[2]>>})
      OBVIOUS
    <2> HIDE DEF parts, f
    <2>4. Sequence(parts) /\ ToSet(parts) = {f[c] : c \in ToSet(DemoComponents)}
      BY <2>2, Declared, Mapped
    <2> QED BY <2>3, <2>4
  <1>3. Sequence(nodes) /\ ToSet(nodes) = NodeSteps
    <2> DEFINE f == [n \in ToSet(DemoNodes) |-> CreateNodeWithRevision(n)]
    <2>1. \A i \in DOMAIN DemoNodes : DemoNodes[i] \in ToSet(DemoNodes)
      BY DEF ToSet
    <2>2. nodes = [i \in DOMAIN DemoNodes |-> f[DemoNodes[i]]]
      BY <2>1 DEF EachOf
    <2>3. \A n \in ToSet(DemoNodes) : f[n] = CreateNodeWithRevision(n)
      OBVIOUS
    <2> HIDE DEF nodes, f
    <2>4. Sequence(nodes) /\ ToSet(nodes) = {f[n] : n \in ToSet(DemoNodes)}
      BY <2>2, DeclaredNodes, Mapped
    <2> QED BY <2>3, <2>4 DEF NodeSteps
  <1>4. Sequence(edges) /\ ToSet(edges) = EdgeSteps
    <2> DEFINE f == [e \in ToSet(DemoEdges) |-> EnsureNodeEdge(e)]
    <2>1. \A i \in DOMAIN DemoEdges : DemoEdges[i] \in ToSet(DemoEdges)
      BY DEF ToSet
    <2>2. edges = [i \in DOMAIN DemoEdges |-> f[DemoEdges[i]]]
      BY <2>1 DEF EachOf
    <2>3. \A e \in ToSet(DemoEdges) : f[e] = EnsureNodeEdge(e)
      OBVIOUS
    <2> HIDE DEF edges, f
    <2>4. Sequence(edges) /\ ToSet(edges) = {f[e] : e \in ToSet(DemoEdges)}
      BY <2>2, DeclaredNodes, Mapped
    <2> QED BY <2>3, <2>4 DEF EdgeSteps
  <1>5. SeedDemoProject = ((first \o parts) \o nodes) \o edges
    BY DEF SeedDemoProject
  <1> HIDE DEF first, parts, nodes, edges
  <1>6. Sequence(first \o parts) /\ ToSet(first \o parts) = ToSet(first) \cup ToSet(parts)
    BY <1>1, <1>2, Joined
  <1>7. Sequence((first \o parts) \o nodes) /\ ToSet((first \o parts) \o nodes) = ToSet(first) \cup ToSet(parts) \cup ToSet(nodes)
    BY <1>3, <1>6, Joined
  <1>8. /\ Sequence(((first \o parts) \o nodes) \o edges)
        /\ ToSet(((first \o parts) \o nodes) \o edges) = ToSet(first) \cup ToSet(parts) \cup ToSet(nodes) \cup ToSet(edges)
    BY <1>4, <1>7, Joined
  <1> QED BY <1>1, <1>2, <1>3, <1>4, <1>5, <1>8

\* its templates and types of components,
LEMMA CodesScript ==
  /\ Sequence(SeedTemplates) /\ ToSet(SeedTemplates) = {Upsert(<<"template", t>>, {}) : t \in ToSet(Templates)}
  /\ Sequence(SeedComponentTypes) /\ ToSet(SeedComponentTypes) = {Upsert(<<"type", t>>, {}) : t \in ToSet(ComponentTypes)}
  <1>1. /\ Sequence(SeedTemplates) /\ ToSet(SeedTemplates) = {Upsert(<<"template", t>>, {}) : t \in ToSet(Templates)}
    <2> DEFINE f == [t \in ToSet(Templates) |-> Upsert(<<"template", t>>, {})]
    <2>1. \A i \in DOMAIN Templates : Templates[i] \in ToSet(Templates)
      BY DEF ToSet
    <2>2. SeedTemplates = [i \in DOMAIN Templates |-> f[Templates[i]]]
      BY <2>1 DEF EachOf, SeedTemplates
    <2>3. \A t \in ToSet(Templates) : f[t] = Upsert(<<"template", t>>, {})
      OBVIOUS
    <2> HIDE DEF f
    <2>4. Sequence(SeedTemplates) /\ ToSet(SeedTemplates) = {f[t] : t \in ToSet(Templates)}
      BY <2>2, Declared, Mapped
    <2> QED BY <2>3, <2>4
  <1>2. /\ Sequence(SeedComponentTypes) /\ ToSet(SeedComponentTypes) = {Upsert(<<"type", t>>, {}) : t \in ToSet(ComponentTypes)}
    <2> DEFINE f == [t \in ToSet(ComponentTypes) |-> Upsert(<<"type", t>>, {})]
    <2>1. \A i \in DOMAIN ComponentTypes : ComponentTypes[i] \in ToSet(ComponentTypes)
      BY DEF ToSet
    <2>2. SeedComponentTypes = [i \in DOMAIN ComponentTypes |-> f[ComponentTypes[i]]]
      BY <2>1 DEF EachOf, SeedComponentTypes
    <2>3. \A t \in ToSet(ComponentTypes) : f[t] = Upsert(<<"type", t>>, {})
      OBVIOUS
    <2> HIDE DEF f
    <2>4. Sequence(SeedComponentTypes) /\ ToSet(SeedComponentTypes) = {f[t] : t \in ToSet(ComponentTypes)}
      BY <2>2, Declared, Mapped
    <2> QED BY <2>3, <2>4
  <1> QED BY <1>1, <1>2

\* the whole of it,
LEMMA SeedScript ==
  ASSUME NEW run
  PROVE  Sequence(SeedMain(run)) /\ ToSet(SeedMain(run)) = SeedSteps(run)
  <1> DEFINE s1 == SeedArchivePolicy
             s2 == s1 \o SeedTenant
             s3 == s2 \o SeedTemplates
             s4 == s3 \o SeedRuleSets(run)
             s5 == s4 \o SeedComponentTypes
             s6 == s5 \o SeedDemoProject
             s7 == s6 \o SeedAudits
  <1>1. Sequence(s1) /\ ToSet(s1) = {Upsert(<<"policy">>, {})}
    BY OneStep DEF SeedArchivePolicy
  <1>2. Sequence(SeedTenant) /\ ToSet(SeedTenant) = {Upsert(<<"tenant">>, {<<"policy">>})}
    BY OneStep DEF SeedTenant
  <1>3. Sequence(s2) /\ ToSet(s2) = ToSet(s1) \cup ToSet(SeedTenant)
    BY <1>1, <1>2, Joined
  <1>4. Sequence(s3) /\ ToSet(s3) = ToSet(s2) \cup ToSet(SeedTemplates)
    <2> HIDE DEF s2
    <2> QED BY <1>3, CodesScript, Joined
  <1>5. Sequence(s4) /\ ToSet(s4) = ToSet(s3) \cup ToSet(SeedRuleSets(run))
    <2> HIDE DEF s3
    <2> QED BY <1>4, SetsScript, Joined
  <1>6. Sequence(s5) /\ ToSet(s5) = ToSet(s4) \cup ToSet(SeedComponentTypes)
    <2> HIDE DEF s4
    <2> QED BY <1>5, CodesScript, Joined
  <1>7. Sequence(s6) /\ ToSet(s6) = ToSet(s5) \cup ToSet(SeedDemoProject)
    <2> HIDE DEF s5
    <2> QED BY <1>6, ProjectScript, Joined
  <1>8. Sequence(s7) /\ ToSet(s7) = ToSet(s6) \cup ToSet(SeedAudits)
    <2> HIDE DEF s6
    <2> QED BY <1>7, AuditsScript, Joined
  <1>9. SeedMain(run) = s7
    BY DEF SeedMain
  <1> HIDE DEF s1, s2, s3, s4, s5, s6, s7
  <1>10. ToSet(s7) = ToSet(s1) \cup ToSet(SeedTenant) \cup ToSet(SeedTemplates) \cup ToSet(SeedRuleSets(run))
                       \cup ToSet(SeedComponentTypes) \cup ToSet(SeedDemoProject) \cup ToSet(SeedAudits)
    BY <1>3, <1>4, <1>5, <1>6, <1>7, <1>8
  <1>11. ToSet(s7) = SeedSteps(run)
    <2>1. ToSet(SeedTemplates) = {Upsert(<<"template", t>>, {}) : t \in ToSet(Templates)}
      BY CodesScript
    <2>2. ToSet(SeedComponentTypes) = {Upsert(<<"type", t>>, {}) : t \in ToSet(ComponentTypes)}
      BY CodesScript
    <2>3. ToSet(SeedRuleSets(run)) = SetSteps \cup RuleSteps(run)
      BY SetsScript
    <2> QED BY <1>1, <1>2, <1>10, <2>1, <2>2, <2>3, ProjectScript, AuditsScript DEF SeedSteps, CatalogueSteps
  <1> QED BY <1>8, <1>9, <1>11

\* and the whole of seed-init.ts.
LEMMA InitScript ==
  ASSUME NEW run
  PROVE  Sequence(InitMain(run)) /\ ToSet(InitMain(run)) = InitSteps(run)
  <1> DEFINE d1 == FindUnique(<<"default tenant">>) \o CreateMany({<<"default tenant">>}, {})
             d2 == FindUnique(<<"default project">>) \o CreateMany({<<"default project">>}, {<<"default tenant">>})
             sets == EachOf(InitRuleSets, LAMBDA set : EnsureRuleSet(set, run))
  <1>1. ASSUME NEW x, NEW y PROVE Sequence(<<x, y>>) /\ ToSet(<<x, y>>) = {x, y}
    BY DEF Sequence, ToSet
  <1>2. InitMain(run) = <<d1, d2>> \o sets
    BY DEF InitMain
  <1>3. Sequence(sets) /\ ToSet(sets) = {EnsureRuleSet(set, run) : set \in ToSet(InitRuleSets)}
    <2> DEFINE f == [set \in ToSet(InitRuleSets) |-> EnsureRuleSet(set, run)]
    <2>1. \A i \in DOMAIN InitRuleSets : InitRuleSets[i] \in ToSet(InitRuleSets)
      BY DEF ToSet
    <2>2. sets = [i \in DOMAIN InitRuleSets |-> f[InitRuleSets[i]]]
      BY <2>1 DEF EachOf
    <2>3. \A set \in ToSet(InitRuleSets) : f[set] = EnsureRuleSet(set, run)
      OBVIOUS
    <2> HIDE DEF f, sets
    <2>4. Sequence(sets) /\ ToSet(sets) = {f[set] : set \in ToSet(InitRuleSets)}
      BY <2>2, Declared, Mapped
    <2> QED BY <2>3, <2>4
  <1>4. DefaultSteps = {d1, d2}
    BY DEF DefaultSteps
  <1> HIDE DEF d1, d2, sets
  <1> QED BY <1>1, <1>2, <1>3, <1>4, Joined DEF InitSteps

(***************************************************************************)
(* How the steps of one script, and the rows of different ones, relate     *)
(***************************************************************************)

\* The steps of a run of a script.
StepsOf(script, run) == IF script = "seed" THEN SeedSteps(run) ELSE InitSteps(run)

\* A run goes through these steps, one after the other.
LEMMA ScriptIs ==
  ASSUME NEW script \in {"seed", "init"}, NEW run \in 1..Attempts
  PROVE  LET steps == Scripts[script][run]
         IN  /\ Sequence(steps) /\ ToSet(steps) = StepsOf(script, run)
             /\ Len(steps) \in Nat /\ Len(steps) # 0 /\ DOMAIN steps = 1..Len(steps)
             /\ \A i \in 1..Len(steps) : steps[i] \in StepsOf(script, run)
             /\ \A a \in StepsOf(script, run) : \E i \in 1..Len(steps) : steps[i] = a
  <1> DEFINE steps == Scripts[script][run]
  <1>1. steps = IF script = "seed" THEN SeedMain(run) ELSE InitMain(run)
    BY DEF Scripts
  <1>2. Sequence(steps) /\ ToSet(steps) = StepsOf(script, run)
    BY <1>1, SeedScript, InitScript DEF StepsOf
  <1>3. \E a : a \in StepsOf(script, run)
    <2>1. Upsert(<<"policy">>, {}) \in SeedSteps(run)
      BY DEF SeedSteps, CatalogueSteps
    <2>2. FindUnique(<<"default tenant">>) \o CreateMany({<<"default tenant">>}, {}) \in InitSteps(run)
      BY DEF InitSteps, DefaultSteps
    <2> QED BY <2>1, <2>2 DEF StepsOf
  <1> HIDE DEF steps
  <1>4. Len(steps) \in Nat /\ DOMAIN steps = 1..Len(steps)
    BY <1>2, SequenceIs
  <1>5. \A i \in 1..Len(steps) : steps[i] \in StepsOf(script, run)
    BY <1>2, <1>4 DEF ToSet
  <1>6. \A a \in StepsOf(script, run) : \E i \in 1..Len(steps) : steps[i] = a
    BY <1>2, <1>4 DEF ToSet
  <1>7. Len(steps) # 0
    BY <1>3, <1>4, <1>6
  <1> QED BY <1>2, <1>4, <1>5, <1>6, <1>7 DEF steps

\* Rule sets of the two scripts, and those of seed-init.ts among each other, have neither their
\* codes nor a rule in common; audits have different identifiers.
LEMMA Codes ==
  /\ \A s \in ToSet(RuleSets), t \in ToSet(InitRuleSets) : s[1] # t[1] /\ ToSet(s[2]) \cap ToSet(t[2]) = {}
  /\ \A s, t \in ToSet(InitRuleSets) : s # t => s[1] # t[1] /\ ToSet(s[2]) \cap ToSet(t[2]) = {}
  /\ \A a, b \in ToSet(DemoAudits) : a.id = b.id => a = b
  <1>1. ASSUME NEW s \in ToSet(RuleSets)
        PROVE  /\ s[1] \in {"TEK17_CORE", "EU_PRESSURE_EQUIPMENT", "NS_EN_378", "TERMOTEAM_BASELINE"}
               /\ ToSet(s[2]) \subseteq {"TEK17-6-3", "TEK17-8-1", "PED-ANNEX-I-2.2", "NSEN378-ALARM",
                                         "NSEN378-VENTILATION", "TT-COMP-REDUNDANCY", "TT-GAS-SENSOR"}
    <2>1. \/ s = <<"TEK17_CORE", <<"TEK17-6-3", "TEK17-8-1">>>> \/ s = <<"EU_PRESSURE_EQUIPMENT", <<"PED-ANNEX-I-2.2">>>>
          \/ s = <<"NS_EN_378", <<"NSEN378-ALARM", "NSEN378-VENTILATION">>>>
          \/ s = <<"TERMOTEAM_BASELINE", <<"TT-COMP-REDUNDANCY", "TT-GAS-SENSOR">>>>
      BY DEF ToSet, RuleSets
    <2> QED BY <2>1 DEF ToSet
  <1>2. ASSUME NEW t \in ToSet(InitRuleSets)
        PROVE  \/ /\ t = <<"GLOBAL_EU_CORE", <<"REQ_FDV_PSVALUE", "REQ_CE_PED", "REQ_RISK_ASSESSMENT">>>>
                  /\ t[1] = "GLOBAL_EU_CORE" /\ ToSet(t[2]) = {"REQ_FDV_PSVALUE", "REQ_CE_PED", "REQ_RISK_ASSESSMENT"}
               \/ /\ t = <<"TENANT_CO2_CORE", <<"REQ_CUSTOMER_CONTACT", "REQ_MAINTENANCE_TASK">>>>
                  /\ t[1] = "TENANT_CO2_CORE" /\ ToSet(t[2]) = {"REQ_CUSTOMER_CONTACT", "REQ_MAINTENANCE_TASK"}
    <2>1. \/ t = <<"GLOBAL_EU_CORE", <<"REQ_FDV_PSVALUE", "REQ_CE_PED", "REQ_RISK_ASSESSMENT">>>>
          \/ t = <<"TENANT_CO2_CORE", <<"REQ_CUSTOMER_CONTACT", "REQ_MAINTENANCE_TASK">>>>
      BY DEF ToSet, InitRuleSets
    <2> QED BY <2>1 DEF ToSet
  <1>3. \A s \in ToSet(RuleSets), t \in ToSet(InitRuleSets) : s[1] # t[1] /\ ToSet(s[2]) \cap ToSet(t[2]) = {}
    BY <1>1, <1>2
  <1>4. \A s, t \in ToSet(InitRuleSets) : s # t => s[1] # t[1] /\ ToSet(s[2]) \cap ToSet(t[2]) = {}
    <2>1. ASSUME NEW s \in ToSet(InitRuleSets), NEW t \in ToSet(InitRuleSets), s # t
          PROVE  s[1] # t[1] /\ ToSet(s[2]) \cap ToSet(t[2]) = {}
      BY <1>2, <2>1
    <2> QED BY <2>1
  <1>5. \A a, b \in ToSet(DemoAudits) : a.id = b.id => a = b
    BY DEF ToSet, DemoAudits
  <1> QED BY <1>3, <1>4, <1>5

\* The kinds of rows that a script deletes.
Removable == {"source", "checklist", "finding", "action"}

\* Node, revision and revision pointer are created by the node's own step, the last two in order.
NodeRows(step) ==
    \A n \in ToSet(DemoNodes), i \in DOMAIN step : step[i].does \in Writing =>
       /\ <<"node", n>> \in step[i].keys => step = CreateNodeWithRevision(n) /\ i = 2
       /\ <<"current", n>> \in step[i].keys => <<"revision", n>> \in step[i].needs

\* A rule set of seed-init.ts comes with its rules and their sources at once.
SourcesOf(set) == UNION {Sources(rule) : rule \in ToSet(set[2])}

\* The rows a run creates with a set of seed-init.ts, and all those there may be of it.
SetBy(set, run) == {<<"set", set[1]>>} \cup UNION {{<<"rule", rule>>, Source(rule, run)} : rule \in ToSet(set[2])}
InitRows(set)  == {<<"set", set[1]>>} \cup {<<"rule", rule>> : rule \in ToSet(set[2])} \cup SourcesOf(set)
SetRows(step) ==
    \A set \in ToSet(InitRuleSets), i \in DOMAIN step :
       \/ step[i].does = "find" \/ step[i].keys \cap InitRows(set) = {}
       \/ step[i].does = "create" /\ \E run \in 1..Attempts : step[i].keys = SetBy(set, run)

\* The rest of what a step is for the others.
Sound(step) ==
    /\ WellOrdered(step) /\ NodeRows(step) /\ SetRows(step)
    /\ \A r \in DeletedBy(step) : r[1] \in Removable

\* The rows of a set are the set itself, and rules and sources of its rules.
LEMMA InitRowKinds ==
  ASSUME NEW set, NEW r \in InitRows(set)
  PROVE  \/ r = <<"set", set[1]>> /\ r[1] = "set" /\ r[2] = set[1]
         \/ r[1] \in {"rule", "source"} /\ r[2] \in ToSet(set[2])
  BY DEF InitRows, SourcesOf, Sources, Source

UpsertKinds == {"policy", "tenant", "project", "template", "type", "component", "set", "edge", "audit"}

\* No row of the step is one that any step removes.
Plain(step) ==
    DeletedBy(step) = {} /\ \A r \in WrittenBy(step) \cup step[1].keys : r[1] \notin Removable

\* Each kind of step is sound: an upsert of anything but a rule,
LEMMA UpsertSound ==
  ASSUME NEW key, NEW needs, key[1] \in UpsertKinds,
         key[1] = "set" => \E s \in ToSet(RuleSets) : key = <<"set", s[1]>>, NEW step, step = Upsert(key, needs)
  PROVE  Sound(step) /\ Plain(step)
  <1>0. UpsertShape(step, key, needs)
    BY UpsertStep
  <1>1. /\ DOMAIN step = {1} /\ step[1].does = "upsert" /\ step[1].keys = {key}
        /\ WellOrdered(step) /\ WrittenBy(step) = {key} /\ DeletedBy(step) = {}
    BY <1>0 DEF UpsertShape, WellOrdered
  <1>2a. key[1] \notin {"node", "current", "rule", "source"} \cup Removable
    BY DEF UpsertKinds, Removable
  <1>2. NodeRows(step)
    <2>1. \A n : <<"node", n>>[1] = "node" /\ <<"current", n>>[1] = "current"
      OBVIOUS
    <2> QED BY <1>1, <1>2a, <2>1 DEF NodeRows
  <1>3. SetRows(step)
    <2>1. ASSUME NEW set \in ToSet(InitRuleSets), key \in InitRows(set) PROVE FALSE
      <3>1. key = <<"set", set[1]>> /\ key[1] = "set" /\ key[2] = set[1]
        BY <1>2a, <2>1, InitRowKinds
      <3>2. PICK s \in ToSet(RuleSets) : key = <<"set", s[1]>>
        BY <3>1
      <3> QED BY <3>1, <3>2, Codes
    <2> QED BY <1>1, <2>1 DEF SetRows
  <1>4. Plain(step)
    BY <1>1, <1>2a DEF Plain
  <1> QED BY <1>1, <1>2, <1>3, <1>4 DEF Sound

\* the step of a rule,
LEMMA RuleSound ==
  ASSUME NEW set \in ToSet(RuleSets), NEW rule \in ToSet(set[2]), NEW run, NEW step, step = SeedRule(rule, set[1], run)
  PROVE  Sound(step)
  <1>0. RuleShape(step, rule, set[1], run)
    BY RuleStep
  <1>1. /\ DOMAIN step = 1..3 /\ step[1] = S("upsert", {<<"rule", rule>>}, {<<"set", set[1]>>})
        /\ step[2] = S("delete", Sources(rule), {}) /\ step[3] = S("create", {Source(rule, run)}, {<<"rule", rule>>})
        /\ WellOrdered(step) /\ DeletedBy(step) = Sources(rule)
    BY <1>0 DEF RuleShape, WellOrdered
  <1>2. /\ step[1].keys = {<<"rule", rule>>} /\ step[2].keys = Sources(rule) /\ step[3].keys = {Source(rule, run)}
    BY <1>1, StatementIs
  <1>3. \A i \in DOMAIN step : \A r \in step[i].keys : r[1] \in {"rule", "source"} /\ r[2] = rule
    <2>1. DOMAIN step = {1, 2, 3}
      BY <1>1
    <2>2. \A r \in Sources(rule) \cup {Source(rule, run), <<"rule", rule>>} : r[1] \in {"rule", "source"} /\ r[2] = rule
      BY DEF Sources, Source
    <2> QED BY <1>2, <2>1, <2>2
  <1>4. NodeRows(step)
    <2>1. \A n : <<"node", n>>[1] = "node" /\ <<"current", n>>[1] = "current"
      OBVIOUS
    <2> QED BY <1>3, <2>1 DEF NodeRows
  <1>5. SetRows(step)
    <2>1. ASSUME NEW t \in ToSet(InitRuleSets), NEW i \in DOMAIN step, NEW r \in step[i].keys, r \in InitRows(t) PROVE FALSE
      <3>1. r[1] \in {"rule", "source"} /\ r[2] = rule
        BY <1>3
      <3>2. rule \in ToSet(t[2])
        BY <2>1, <3>1, InitRowKinds
      <3> QED BY <3>2, Codes
    <2> QED BY <2>1 DEF SetRows
  <1>6. \A r \in DeletedBy(step) : r[1] \in Removable
    BY <1>1 DEF Removable, Sources, Source
  <1> QED BY <1>1, <1>4, <1>5, <1>6 DEF Sound

\* of a node,
LEMMA NodeSound ==
  ASSUME NEW m \in ToSet(DemoNodes), NEW step, step = CreateNodeWithRevision(m)
  PROVE  Sound(step) /\ Plain(step)
  <1>0. NodeShape(step, m)
    BY NodeStep
  <1>1. /\ DOMAIN step = 1..4
        /\ step[1] = S("find", {<<"node", m>>}, {})
        /\ step[2] = S("create", {<<"node", m>>}, NodeNeeds(m))
        /\ step[3] = S("create", {<<"revision", m>>}, {<<"node", m>>})
        /\ step[4] = S("update", {<<"current", m>>}, {<<"node", m>>, <<"revision", m>>})
        /\ WellOrdered(step) /\ DeletedBy(step) = {} /\ WrittenBy(step) = {<<"node", m>>, <<"revision", m>>, <<"current", m>>}
    BY <1>0 DEF NodeShape, WellOrdered
  <1>2. /\ step[1].keys = {<<"node", m>>} /\ step[2].keys = {<<"node", m>>} /\ step[3].keys = {<<"revision", m>>}
        /\ step[4].keys = {<<"current", m>>} /\ step[4].needs = {<<"node", m>>, <<"revision", m>>} /\ step[1].does = "find"
    BY <1>1, StatementIs
  <1>4. DOMAIN step = {1, 2, 3, 4}
    BY <1>1
  <1>5. NodeRows(step)
    <2>1. ASSUME NEW n, NEW i \in DOMAIN step, step[i].does \in Writing
          PROVE  /\ <<"node", n>> \in step[i].keys => n = m /\ i = 2
                 /\ <<"current", n>> \in step[i].keys => n = m /\ i = 4
      <3>1. i # 1
        BY <1>2, <2>1 DEF Writing
      <3> QED BY <1>2, <1>4, <3>1
    <2> QED BY <1>2, <2>1 DEF NodeRows
  <1>6. SetRows(step)
    <2>1. \A r \in {<<"node", m>>, <<"revision", m>>, <<"current", m>>} : r[1] \in {"node", "revision", "current"}
      OBVIOUS
    <2>2. \A i \in DOMAIN step : step[i].keys \subseteq {<<"node", m>>, <<"revision", m>>, <<"current", m>>}
      BY <1>2, <1>4
    <2>3. \A t, r : r \in InitRows(t) => r[1] \in {"set", "rule", "source"}
      BY InitRowKinds
    <2> QED BY <2>1, <2>2, <2>3 DEF SetRows
  <1>7. Plain(step)
    <2>1. \A r \in {<<"node", m>>, <<"revision", m>>, <<"current", m>>} : r[1] \in {"node", "revision", "current"}
      OBVIOUS
    <2>2. WrittenBy(step) \cup step[1].keys \subseteq {<<"node", m>>, <<"revision", m>>, <<"current", m>>}
      BY <1>1, <1>2
    <2> QED BY <1>1, <2>1, <2>2 DEF Plain, Removable
  <1> QED BY <1>1, <1>5, <1>6, <1>7 DEF Sound

\* of the rows of an audit,
LEMMA ChildrenSound ==
  ASSUME NEW kind \in ChildKinds, NEW audit, NEW step, step = SeedChildren(kind, audit)
  PROVE  Sound(step)
  <1>0. ChildrenShape(step, kind, audit)
    BY ChildrenStep
  <1>1. /\ Len(step) \in {1, 2} /\ DOMAIN step = 1..Len(step)
        /\ step[1] = S("delete", Children(kind, audit), {})
        /\ Len(step) = 2 => step[2] = S("create", Children(kind, audit), {<<"audit", audit.id>>})
        /\ WellOrdered(step) /\ DeletedBy(step) = Children(kind, audit)
    BY <1>0 DEF ChildrenShape, WellOrdered
  <1>2. step[1].keys = Children(kind, audit) /\ (Len(step) = 2 => step[2].keys = Children(kind, audit))
    BY <1>1, StatementIs
  <1>3. \A i \in DOMAIN step : step[i].keys = Children(kind, audit)
    BY <1>1, <1>2
  <1>4. \A r \in Children(kind, audit) : r[1] = kind /\ kind \in Removable
    BY DEF Children, ChildKinds, Removable
  <1>5. NodeRows(step)
    <2>1. \A n : <<"node", n>>[1] = "node" /\ <<"current", n>>[1] = "current"
      OBVIOUS
    <2> QED BY <1>3, <1>4, <2>1 DEF NodeRows, Removable
  <1>6. SetRows(step)
    <2>1. \A t, r : r \in InitRows(t) => r[1] \in {"set", "rule", "source"}
      BY InitRowKinds
    <2> QED BY <1>3, <1>4, <2>1 DEF SetRows, ChildKinds
  <1> QED BY <1>1, <1>4, <1>5, <1>6 DEF Sound

\* of the default tenant and project,
LEMMA DefaultSound ==
  ASSUME NEW key, NEW needs, key[1] \notin {"node", "current", "rule", "source", "set"}, NEW step, step = Ensured(key, {key}, needs)
  PROVE  Sound(step) /\ DeletedBy(step) = {}
  <1>0. EnsureShape(step, key, {key}, needs)
    <2>1. key \in {key}
      OBVIOUS
    <2> QED BY <2>1, EnsureStep
  <1>1. /\ DOMAIN step = 1..2 /\ step[1] = S("find", {key}, {}) /\ step[2] = S("create", {key}, needs)
        /\ WellOrdered(step) /\ DeletedBy(step) = {}
    BY <1>0 DEF EnsureShape, WellOrdered
  <1>2. step[1].keys = {key} /\ step[2].keys = {key}
    <2>1. S("find", {key}, {}).keys = {key} /\ S("create", {key}, needs).keys = {key}
      BY StatementIs
    <2> QED BY <1>1, <2>1
  <1>3. \A i \in DOMAIN step : step[i].keys = {key}
    <2>1. DOMAIN step = {1, 2}
      BY <1>1
    <2> QED BY <1>2, <2>1
  <1>5. NodeRows(step)
    <2>1. \A n : <<"node", n>>[1] = "node" /\ <<"current", n>>[1] = "current"
      OBVIOUS
    <2> QED BY <1>3, <2>1 DEF NodeRows
  <1>6. SetRows(step)
    <2>1. \A t, r : r \in InitRows(t) => r[1] \in {"set", "rule", "source"}
      BY InitRowKinds
    <2> QED BY <1>3, <2>1 DEF SetRows
  <1> QED BY <1>1, <1>5, <1>6 DEF Sound

\* and of a set of seed-init.ts.
LEMMA SetSound ==
  ASSUME NEW s \in ToSet(InitRuleSets), NEW run \in 1..Attempts, NEW step, step = EnsureRuleSet(s, run)
  PROVE  Sound(step)
  <1> DEFINE key == <<"set", s[1]>>
  <1>1. /\ DOMAIN step = 1..2 /\ step[1] = S("find", {key}, {}) /\ step[2] = S("create", SetBy(s, run), {})
        /\ WellOrdered(step) /\ DeletedBy(step) = {}
    <2>1. key \in SetBy(s, run)
      BY DEF SetBy
    <2>2. step = Ensured(key, SetBy(s, run), {})
      BY DEF EnsureRuleSet, SetBy, Ensured
    <2> HIDE DEF key
    <2>3. EnsureShape(step, key, SetBy(s, run), {})
      BY <2>1, <2>2, EnsureStep
    <2> QED BY <2>3 DEF EnsureShape, WellOrdered
  <1>2. step[1].keys = {key} /\ step[2].keys = SetBy(s, run) /\ step[1].does = "find" /\ step[2].does = "create"
    BY <1>1, StatementIs
  <1>3. DOMAIN step = {1, 2}
    BY <1>1
  <1>4. \A r \in SetBy(s, run) : \/ r[1] = "set" /\ r[2] = s[1]
                                 \/ r[1] \in {"rule", "source"} /\ r[2] \in ToSet(s[2])
    BY DEF SetBy, Source
  <1>5. NodeRows(step)
    <2>1. \A n : <<"node", n>>[1] = "node" /\ <<"current", n>>[1] = "current"
      OBVIOUS
    <2> QED BY <1>2, <1>3, <1>4, <2>1 DEF NodeRows
  <1>6. SetRows(step)
    <2>1. ASSUME NEW t \in ToSet(InitRuleSets), t # s PROVE SetBy(s, run) \cap InitRows(t) = {}
      <3>1. ASSUME NEW r \in SetBy(s, run), r \in InitRows(t) PROVE FALSE
        <4>1. s[1] # t[1] /\ ToSet(s[2]) \cap ToSet(t[2]) = {}
          BY <2>1, Codes
        <4>2. \/ r[1] = "set" /\ r[2] = t[1]
              \/ r[1] \in {"rule", "source"} /\ r[2] \in ToSet(t[2])
          BY <3>1, InitRowKinds
        <4> QED BY <1>4, <4>1, <4>2
      <3> QED BY <3>1
    <2> QED BY <1>2, <1>3, <2>1 DEF SetRows
  <1> QED BY <1>1, <1>5, <1>6 DEF Sound

\* A step of seed.ts deletes nothing, or seeds a rule, or rows of an audit.
LEMMA SeedKinds ==
  ASSUME NEW run, NEW step \in SeedSteps(run)
  PROVE  \/ Sound(step) /\ Plain(step)
         \/ \E set \in ToSet(RuleSets) : \E rule \in ToSet(set[2]) : step = SeedRule(rule, set[1], run)
         \/ \E kind \in ChildKinds, audit \in ToSet(DemoAudits) : step = SeedChildren(kind, audit)
  <1>1. CASE \E key, needs : /\ step = Upsert(key, needs) /\ key[1] \in UpsertKinds
                             /\ key[1] = "set" => \E s \in ToSet(RuleSets) : key = <<"set", s[1]>>
    BY <1>1, UpsertSound
  <1>2. CASE step \in CatalogueSteps
    <2>1. \E key, needs : step = Upsert(key, needs) /\ key[1] \in UpsertKinds /\ key[1] # "set"
      <3>1. ASSUME NEW t PROVE /\ <<"template", t>>[1] \in UpsertKinds /\ <<"template", t>>[1] # "set"
                               /\ <<"type", t>>[1] \in UpsertKinds /\ <<"type", t>>[1] # "set"
                               /\ <<"component", t>>[1] \in UpsertKinds /\ <<"component", t>>[1] # "set"
        BY DEF UpsertKinds
      <3>2. \A key \in {<<"policy">>, <<"tenant">>, <<"project">>} : key[1] \in UpsertKinds /\ key[1] # "set"
        BY DEF UpsertKinds
      <3>3. CASE step \in {Upsert(<<"policy">>, {}), Upsert(<<"tenant">>, {<<"policy">>}), Upsert(<<"project">>, {<<"tenant">>})}
        BY <3>2, <3>3, Zenon
      <3>4. CASE \E t \in ToSet(Templates) : step = Upsert(<<"template", t>>, {})
        <4>1. PICK t \in ToSet(Templates) : step = Upsert(<<"template", t>>, {})
          BY <3>4
        <4> QED BY <3>1, <4>1
      <3>5. CASE \E t \in ToSet(ComponentTypes) : step = Upsert(<<"type", t>>, {})
        <4>1. PICK t \in ToSet(ComponentTypes) : step = Upsert(<<"type", t>>, {})
          BY <3>5
        <4> QED BY <3>1, <4>1
      <3>6. CASE \E c \in ToSet(DemoComponents) : step = Upsert(<<"component", c[1]>>, {<<"project">>, <<"type", c[2]>>})
        <4>1. PICK c \in ToSet(DemoComponents) : step = Upsert(<<"component", c[1]>>, {<<"project">>, <<"type", c[2]>>})
          BY <3>6
        <4> QED BY <3>1, <4>1
      <3> QED BY <1>2, <3>3, <3>4, <3>5, <3>6 DEF CatalogueSteps
    <2> QED BY <1>1, <2>1
  <1>3. CASE step \in SetSteps
    <2>1. PICK s \in ToSet(RuleSets) : step = Upsert(<<"set", s[1]>>, {})
      BY <1>3 DEF SetSteps
    <2>2. <<"set", s[1]>>[1] \in UpsertKinds
      BY DEF UpsertKinds
    <2> QED BY <1>1, <2>1, <2>2
  <1>4. CASE step \in EdgeSteps
    <2>1. PICK e \in ToSet(DemoEdges) : step = EnsureNodeEdge(e)
      BY <1>4 DEF EdgeSteps
    <2>2. <<"edge", e>>[1] \in UpsertKinds /\ <<"edge", e>>[1] # "set"
      BY DEF UpsertKinds
    <2>3. step = Upsert(<<"edge", e>>, {<<"node", e[1]>>, <<"node", e[2]>>})
      BY <2>1 DEF EnsureNodeEdge
    <2> QED BY <1>1, <2>2, <2>3
  <1>5. CASE step \in AuditSteps
    <2>1. PICK a \in ToSet(DemoAudits) : step = Upsert(<<"audit", a.id>>, {<<"project">>})
      BY <1>5 DEF AuditSteps
    <2>2. <<"audit", a.id>>[1] \in UpsertKinds /\ <<"audit", a.id>>[1] # "set"
      BY DEF UpsertKinds
    <2> QED BY <1>1, <2>1, <2>2
  <1>6. CASE step \in NodeSteps
    BY <1>6, NodeSound DEF NodeSteps
  <1>7. CASE step \in RuleSteps(run)
    BY <1>7 DEF RuleSteps
  <1>8. CASE step \in ChildSteps
    BY <1>8 DEF ChildSteps
  <1> QED BY <1>2, <1>3, <1>4, <1>5, <1>6, <1>7, <1>8 DEF SeedSteps

\* A step of seed-init.ts deletes nothing.
LEMMA InitKinds ==
  ASSUME NEW run \in 1..Attempts, NEW step \in InitSteps(run)
  PROVE  Sound(step) /\ DeletedBy(step) = {}
  <1>1. CASE step \in DefaultSteps
    <2>1. \A key \in {<<"default tenant">>, <<"default project">>} : key[1] \notin {"node", "current", "rule", "source", "set"}
      <3>1. <<"default tenant">>[1] = "default tenant" /\ <<"default project">>[1] = "default project"
        OBVIOUS
      <3> QED BY <3>1
    <2>2. \E key \in {<<"default tenant">>, <<"default project">>} : \E needs : step = Ensured(key, {key}, needs)
      BY <1>1 DEF DefaultSteps, Ensured
    <2>3. PICK key \in {<<"default tenant">>, <<"default project">>} : \E needs : step = Ensured(key, {key}, needs)
      BY <2>2
    <2>4. PICK needs : step = Ensured(key, {key}, needs)
      BY <2>3
    <2> QED BY <2>1, <2>4, DefaultSound
  <1>2. CASE step \in {EnsureRuleSet(set, run) : set \in ToSet(InitRuleSets)}
    <2>1. PICK s \in ToSet(InitRuleSets) : step = EnsureRuleSet(s, run)
      BY <1>2
    <2>2. <<"set", s[1]>> \in SetBy(s, run) /\ step = Ensured(<<"set", s[1]>>, SetBy(s, run), {})
      BY <2>1 DEF EnsureRuleSet, SetBy, Ensured
    <2>3. EnsureShape(step, <<"set", s[1]>>, SetBy(s, run), {})
      BY <2>2, EnsureStep
    <2> QED BY <2>1, <2>3, SetSound DEF EnsureShape
  <1> QED BY <1>1, <1>2 DEF InitSteps

\* All steps of both scripts are sound.
LEMMA StepsSound ==
  ASSUME NEW script \in {"seed", "init"}, NEW run \in 1..Attempts, NEW step \in StepsOf(script, run)
  PROVE  Sound(step)
  <1>1. CASE script = "init"
    BY <1>1, InitKinds DEF StepsOf
  <1>2. CASE script = "seed"
    <2>1. step \in SeedSteps(run)
      BY <1>2 DEF StepsOf
    <2> QED BY <2>1, SeedKinds, RuleSound, ChildrenSound
  <1> QED BY <1>1, <1>2

\* A step that has the rows of another is one that does the same to them.
Replaces(step, other) ==
    /\ DeletedBy(step) = DeletedBy(other) /\ WrittenBy(step) = WrittenBy(other)
    /\ step[1].does # "find" /\ other[1].does # "find"

\* A step that deletes a row which another step of the same run writes or looks for does to the
\* rows what the other one does: it replaces it.
LEMMA StepsCompatible ==
  ASSUME NEW script \in {"seed", "init"}, NEW run \in 1..Attempts,
         NEW a \in StepsOf(script, run), NEW b \in StepsOf(script, run),
         NEW r \in WrittenBy(a) \cup a[1].keys, r \in DeletedBy(b)
  PROVE  Replaces(a, b)
  <1>1. script = "seed"
    <2> SUFFICES ASSUME script = "init" PROVE FALSE
      OBVIOUS
    <2>1. DeletedBy(b) = {}
      BY InitKinds DEF StepsOf
    <2> QED BY <2>1
  <1>2. a \in SeedSteps(run) /\ b \in SeedSteps(run) /\ Sound(b)
    BY <1>1, StepsSound DEF StepsOf
  <1>3. r[1] \in Removable /\ ~Plain(b) /\ ~Plain(a)
    BY <1>2 DEF Sound, Plain
  <1>4. ASSUME NEW step \in SeedSteps(run), ~Plain(step)
        PROVE  \/ \E rule : /\ DeletedBy(step) = Sources(rule) /\ WrittenBy(step) = {<<"rule", rule>>, Source(rule, run)}
                            /\ step[1].does = "upsert" /\ step[1].keys = {<<"rule", rule>>}
               \/ \E kind \in ChildKinds, audit \in ToSet(DemoAudits) :
                    /\ DeletedBy(step) = Children(kind, audit) /\ WrittenBy(step) = Children(kind, audit)
                    /\ step[1].does = "delete" /\ step[1].keys = Children(kind, audit)
    <2>1. \/ \E set \in ToSet(RuleSets) : \E rule \in ToSet(set[2]) : step = SeedRule(rule, set[1], run)
          \/ \E kind \in ChildKinds, audit \in ToSet(DemoAudits) : step = SeedChildren(kind, audit)
      BY <1>4, SeedKinds
    <2>2. CASE \E set \in ToSet(RuleSets) : \E rule \in ToSet(set[2]) : step = SeedRule(rule, set[1], run)
      <3>1. PICK set \in ToSet(RuleSets) : \E rule \in ToSet(set[2]) : step = SeedRule(rule, set[1], run)
        BY <2>2
      <3>2. PICK rule \in ToSet(set[2]) : step = SeedRule(rule, set[1], run)
        BY <3>1
      <3>3. RuleShape(step, rule, set[1], run)
        BY <3>2, RuleStep
      <3>4. step[1].does = "upsert" /\ step[1].keys = {<<"rule", rule>>}
        BY <3>3, StatementIs DEF RuleShape
      <3> QED BY <3>3, <3>4 DEF RuleShape
    <2>3. CASE \E kind \in ChildKinds, audit \in ToSet(DemoAudits) : step = SeedChildren(kind, audit)
      <3>1. PICK kind \in ChildKinds, audit \in ToSet(DemoAudits) : step = SeedChildren(kind, audit)
        BY <2>3
      <3>2. ChildrenShape(step, kind, audit)
        BY <3>1, ChildrenStep
      <3>3. step[1].does = "delete" /\ step[1].keys = Children(kind, audit)
        BY <3>2, StatementIs DEF ChildrenShape
      <3> QED BY <3>2, <3>3 DEF ChildrenShape
    <2> QED BY <2>1, <2>2, <2>3
  <1>5. \A rule : \A s \in Sources(rule) : s[1] = "source" /\ s[2] = rule
    BY DEF Sources, Source
  <1>6. \A rule : Source(rule, run) \in Sources(rule) /\ <<"rule", rule>>[1] = "rule"
    BY DEF Sources
  <1>7. \A kind \in ChildKinds, audit \in ToSet(DemoAudits) : \A c \in Children(kind, audit) :
           c[1] = kind /\ c[2] = audit.id /\ c[1] \in ChildKinds
    BY DEF Children
  <1>8. CASE \E rule : /\ DeletedBy(b) = Sources(rule) /\ WrittenBy(b) = {<<"rule", rule>>, Source(rule, run)}
                       /\ b[1].does = "upsert" /\ b[1].keys = {<<"rule", rule>>}
    <2>1. PICK rule : /\ DeletedBy(b) = Sources(rule) /\ WrittenBy(b) = {<<"rule", rule>>, Source(rule, run)}
                      /\ b[1].does = "upsert"
      BY <1>8
    <2>2. r[1] = "source" /\ r[2] = rule
      BY <1>5, <2>1
    <2>3. PICK other : /\ DeletedBy(a) = Sources(other) /\ WrittenBy(a) = {<<"rule", other>>, Source(other, run)}
                       /\ a[1].does = "upsert" /\ a[1].keys = {<<"rule", other>>}
      BY <1>2, <1>3, <1>4, <1>7, <2>2 DEF ChildKinds
    <2>4. other = rule
      BY <1>5, <1>6, <2>2, <2>3
    <2> QED BY <2>1, <2>3, <2>4 DEF Replaces
  <1>9. CASE \E kind \in ChildKinds, audit \in ToSet(DemoAudits) :
               DeletedBy(b) = Children(kind, audit) /\ WrittenBy(b) = Children(kind, audit) /\ b[1].does = "delete"
    <2>1. PICK kind \in ChildKinds, audit \in ToSet(DemoAudits) :
             DeletedBy(b) = Children(kind, audit) /\ WrittenBy(b) = Children(kind, audit) /\ b[1].does = "delete"
      BY <1>9
    <2>2. r[1] = kind /\ r[2] = audit.id /\ r[1] \in ChildKinds
      BY <1>7, <2>1
    <2>3. \A rule : r \notin {<<"rule", rule>>, Source(rule, run)}
      BY <2>2 DEF ChildKinds, Source
    <2>4. PICK type \in ChildKinds, other \in ToSet(DemoAudits) :
             /\ DeletedBy(a) = Children(type, other) /\ WrittenBy(a) = Children(type, other)
             /\ a[1].does = "delete" /\ a[1].keys = Children(type, other)
      BY <1>2, <1>3, <1>4, <2>3
    <2>5. type = kind /\ other.id = audit.id
      BY <1>7, <2>2, <2>4
    <2>6. other = audit
      BY <2>5, Codes
    <2> QED BY <2>1, <2>4, <2>5, <2>6 DEF Replaces
  <1> QED BY <1>2, <1>3, <1>4, <1>8, <1>9

(***************************************************************************)
(* What a statement does to the rows, and what stays of the steps before   *)
(***************************************************************************)

\* The statement turns the rows d into the rows e.
Effect(p, d, e) ==
    /\ p.needs \subseteq DOMAIN d
    /\ p.does = "create" => p.keys \cap DOMAIN d = {}
    /\ p.does \in Writing =>
         /\ DOMAIN e = p.keys \cup DOMAIN d
         /\ \A r \in DOMAIN e : e[r] = IF r \in p.keys THEN "seed" ELSE d[r]
    /\ p.does \notin Writing =>
         /\ DOMAIN e = IF p.does = "delete" THEN (DOMAIN d) \ p.keys ELSE DOMAIN d
         /\ \A r \in DOMAIN e : e[r] = d[r]

\* The rows are there as the seed wrote them.
Mine(keys, d) == \A r \in keys : r \in DOMAIN d /\ d[r] = "seed"

\* What a step that is through has left: the row it found or made, or all it writes and nothing
\* else of what it replaces.
Kept(step, d) ==
    IF step[1].does = "find" THEN step[1].keys \subseteq DOMAIN d
    ELSE Mine(WrittenBy(step), d) /\ DeletedBy(step) \cap DOMAIN d \subseteq WrittenBy(step)

\* What a step has done before its statement at.
StepBegun(step, at, d) ==
    \A i \in DOMAIN step : i < at =>
       /\ step[i].does \in Writing => Mine(step[i].keys, d)
       /\ step[i].does = "delete" => step[i].keys \cap DOMAIN d = {}

\* The keys of a statement are among those its step writes or deletes.
LEMMA InStep ==
  ASSUME NEW step, NEW i \in DOMAIN step
  PROVE  /\ step[i].does \in Writing => step[i].keys \subseteq WrittenBy(step)
         /\ step[i].does = "delete" => step[i].keys \subseteq DeletedBy(step)
  BY DEF WrittenBy, DeletedBy

\* A step that is kept stays so at a statement of any other step, unless that replaces it.
LEMMA KeptOn ==
  ASSUME NEW script \in {"seed", "init"}, NEW run \in 1..Attempts,
         NEW a \in StepsOf(script, run), NEW o \in StepsOf(script, run), NEW i \in DOMAIN a,
         NEW d, NEW e, Effect(a[i], d, e), Kept(o, d)
  PROVE  Kept(o, e) \/ Replaces(o, a)
  <1> DEFINE p == a[i]
  <1>1. p.does \in Writing \cup {"delete", "find"} /\ (p.does = "find" \/ p.does = "delete" <=> p.does \notin Writing)
    BY StepsSound DEF Sound, WellOrdered, Writing
  <1>2. /\ p.does \in Writing => p.keys \subseteq WrittenBy(a)
        /\ p.does = "delete" => p.keys \subseteq DeletedBy(a)
    BY InStep
  <1>3. /\ \A r \in WrittenBy(a) : r \in DeletedBy(o) => WrittenBy(a) = WrittenBy(o)
        /\ \A r \in WrittenBy(o) \cup o[1].keys : r \in DeletedBy(a) => Replaces(o, a)
    BY StepsCompatible DEF Replaces
  <1> HIDE DEF p
  <1>4. Effect(p, d, e)
    BY DEF p
  <1>5. CASE p.does \in Writing
    <2>1. DOMAIN e = p.keys \cup DOMAIN d /\ \A r \in DOMAIN e : e[r] = IF r \in p.keys THEN "seed" ELSE d[r]
      BY <1>4, <1>5 DEF Effect
    <2>2. CASE o[1].does = "find"
      BY <2>1, <2>2 DEF Kept
    <2>3. CASE o[1].does # "find"
      <3>1. Mine(WrittenBy(o), e)
        BY <2>1, <2>3 DEF Kept, Mine
      <3>2. DeletedBy(o) \cap DOMAIN e \subseteq WrittenBy(o)
        BY <1>2, <1>3, <1>5, <2>1, <2>3 DEF Kept
      <3> QED BY <2>3, <3>1, <3>2 DEF Kept
    <2> QED BY <2>2, <2>3
  <1>6. CASE p.does = "delete" /\ ~Replaces(o, a)
    <2>1. /\ DOMAIN e = (DOMAIN d) \ p.keys /\ \A r \in DOMAIN e : e[r] = d[r]
          /\ \A r \in WrittenBy(o) \cup o[1].keys : r \notin p.keys
      BY <1>1, <1>2, <1>3, <1>4, <1>6 DEF Effect
    <2> QED BY <2>1 DEF Kept, Mine
  <1>7. CASE p.does = "find"
    <2>1. DOMAIN e = DOMAIN d /\ \A r \in DOMAIN e : e[r] = d[r]
      BY <1>1, <1>4, <1>7 DEF Effect
    <2> QED BY <2>1 DEF Kept, Mine
  <1> QED BY <1>1, <1>5, <1>6, <1>7

\* What a step has done so far stays done at its next statement.
LEMMA BegunOn ==
  ASSUME NEW a, Sound(a), NEW i \in DOMAIN a, NEW d, NEW e, Effect(a[i], d, e), StepBegun(a, i, d)
  PROVE  \A j \in DOMAIN a : j <= i =>
           /\ a[j].does \in Writing => Mine(a[j].keys, e)
           /\ a[j].does = "delete" =>
                IF i < Len(a) \/ j = i THEN a[j].keys \cap DOMAIN e = {}
                ELSE a[j].keys \cap DOMAIN e \subseteq WrittenBy(a)
  <1> TAKE j \in DOMAIN a
  <1> HAVE j <= i
  <1>0. /\ WellOrdered(a) /\ i \in 1..Len(a) /\ j \in 1..Len(a) /\ Len(a) \in Nat
        /\ a[i].does \in Writing \cup {"delete", "find"} /\ (a[i].does = "find" \/ a[i].does = "delete" <=> a[i].does \notin Writing)
    BY DEF Sound, WellOrdered, Writing
  <1>1. a[j].does # "find" => (a[j].does \in Writing <=> a[j].does # "delete")
    BY DEF Sound, WellOrdered, Writing
  <1>2. CASE j = i
    <2>1. a[j].does \in Writing => Mine(a[j].keys, e)
      BY <1>2 DEF Effect, Mine
    <2>2. a[j].does = "delete" => a[j].keys \cap DOMAIN e = {}
      BY <1>0, <1>2 DEF Effect
    <2> QED BY <1>2, <2>1, <2>2
  <1>3. CASE j < i
    <2>1. /\ a[j].does \in Writing => Mine(a[j].keys, d)
          /\ a[j].does = "delete" => a[j].keys \cap DOMAIN d = {}
      BY <1>3 DEF StepBegun
    <2>2. a[j].does \in Writing => Mine(a[j].keys, e)
      <3>1. CASE a[i].does \in Writing
        BY <2>1, <3>1 DEF Effect, Mine
      <3>2. CASE a[i].does = "delete"
        <4>1. a[j].keys \cap a[i].keys = {}
          BY <1>0, <1>3, <3>2 DEF WellOrdered
        <4> QED BY <1>0, <2>1, <3>2, <4>1 DEF Effect, Mine
      <3>3. CASE a[i].does = "find"
        BY <1>0, <2>1, <3>3 DEF Effect, Mine
      <3> QED BY <1>0, <3>1, <3>2, <3>3
    <2>3. ASSUME a[j].does = "delete"
          PROVE  i = Len(a) /\ a[i].does \in Writing /\ a[j].keys \cap DOMAIN e \subseteq WrittenBy(a)
      <3>1. i = Len(a) /\ a[i].does \in Writing
        BY <1>0, <1>3, <2>3 DEF WellOrdered
      <3>2. DOMAIN e = a[i].keys \cup DOMAIN d /\ a[i].keys \subseteq WrittenBy(a)
        BY <3>1, InStep DEF Effect
      <3> QED BY <2>1, <2>3, <3>1, <3>2
    <2> QED BY <1>0, <1>3, <2>2, <2>3
  <1> QED BY <1>0, <1>2, <1>3

\* A step that is through, to its end or because it has found its row, is kept.
LEMMA StepKept ==
  ASSUME NEW a, Sound(a), NEW i \in DOMAIN a, NEW d, NEW e, Effect(a[i], d, e), StepBegun(a, i, d),
         i = Len(a) \/ (a[i].does = "find" /\ a[i].keys \subseteq DOMAIN d)
  PROVE  Kept(a, e)
  <1>0. /\ WellOrdered(a) /\ Len(a) \in Nat /\ DOMAIN a = 1..Len(a) /\ Len(a) # 0
        /\ a[i].does = "find" => i = 1
    BY DEF Sound, WellOrdered
  <1>1. CASE a[1].does = "find"
    <2>1. Len(a) > 1 /\ a[2].does = "create" /\ a[1].keys \subseteq a[2].keys /\ DeletedBy(a) = {}
      BY <1>0, <1>1 DEF WellOrdered
    <2>2. CASE i = 1
      <3>1. a[1].keys \subseteq DOMAIN d
        BY <1>0, <2>1, <2>2
      <3>2. DOMAIN e = DOMAIN d
        BY <1>1, <2>2 DEF Effect, Writing
      <3> QED BY <1>1, <3>1, <3>2 DEF Kept
    <2>3. CASE i # 1
      <3>1. 2 \in DOMAIN a /\ 2 <= i /\ a[2].does \in Writing
        BY <1>0, <2>1, <2>3 DEF Writing
      <3>2. Mine(a[2].keys, e)
        BY <3>1, BegunOn
      <3> QED BY <1>1, <2>1, <3>2 DEF Kept, Mine
    <2> QED BY <2>2, <2>3
  <1>2. CASE a[1].does # "find"
    <2>1. i = Len(a)
      BY <1>0, <1>2
    <2>2. \A j \in DOMAIN a : j <= i
      BY <1>0, <2>1
    <2>3. \A j \in DOMAIN a : /\ a[j].does \in Writing => Mine(a[j].keys, e)
                              /\ a[j].does = "delete" => a[j].keys \cap DOMAIN e \subseteq WrittenBy(a)
      BY <2>2, BegunOn
    <2>4. Mine(WrittenBy(a), e)
      BY <2>3 DEF Mine, WrittenBy
    <2>5. DeletedBy(a) \cap DOMAIN e \subseteq WrittenBy(a)
      <3>1. ASSUME NEW r \in DeletedBy(a), r \in DOMAIN e PROVE r \in WrittenBy(a)
        <4>1. PICK j \in DOMAIN a : a[j].does = "delete" /\ r \in a[j].keys
          BY DEF DeletedBy
        <4> QED BY <2>3, <3>1, <4>1
      <3> QED BY <3>1
    <2> QED BY <1>2, <2>4, <2>5 DEF Kept
  <1> QED BY <1>1, <1>2

\* A step is kept where the one that replaces it is.
LEMMA ReplacedKept ==
  ASSUME NEW a, NEW o, NEW e, Replaces(o, a), Kept(a, e)
  PROVE  Kept(o, e)
  BY DEF Replaces, Kept

\* A current revision is there; a rule set of seed-init.ts is there with all that belongs to it,
\* or none of its rules has a source.
RevisionsIn(these) == \A n \in ToSet(DemoNodes) : <<"current", n>> \in these => <<"revision", n>> \in these

\* A set of seed-init.ts that is there has its rules, each with one source; one that is not there
\* has no sources.
SetIn(set, these) ==
    IF <<"set", set[1]>> \in these
    THEN \A rule \in ToSet(set[2]) :
            <<"rule", rule>> \in these /\ \E source \in Sources(rule) : Sources(rule) \cap these = {source}
    ELSE \A rule \in ToSet(set[2]) : Sources(rule) \cap these = {}
SetsIn(these) == \A set \in ToSet(InitRuleSets) : SetIn(set, these)

\* The rows after a statement are those before it and those it writes, without those it deletes.
RowsMove(p, these, next) ==
    \/ p.does \in Writing /\ next = p.keys \cup these
    \/ p.does = "delete" /\ next = these \ p.keys /\ \A r \in p.keys : r[1] \in Removable
    \/ p.does = "find" /\ next = these

\* Each statement of a sound step moves the rows so.
LEMMA RowsAfter ==
  ASSUME NEW a, Sound(a), NEW i \in DOMAIN a, NEW d, NEW e, Effect(a[i], d, e)
  PROVE  RowsMove(a[i], DOMAIN d, DOMAIN e)
  <1>1. a[i].does \in Writing \cup {"delete", "find"}
    BY DEF Sound, WellOrdered
  <1>2. a[i].does = "delete" => \A r \in a[i].keys : r[1] \in Removable
    BY InStep DEF Sound
  <1> QED BY <1>1, <1>2 DEF Effect, Writing, RowsMove

\* A node that has a current revision keeps having it at every statement,
LEMMA RevisionsOn ==
  ASSUME NEW a, Sound(a), NEW i \in DOMAIN a, NEW d, NEW e, Effect(a[i], d, e), RevisionsIn(DOMAIN d)
  PROVE  RevisionsIn(DOMAIN e)
  <1> SUFFICES ASSUME NEW n \in ToSet(DemoNodes), <<"current", n>> \in DOMAIN e PROVE <<"revision", n>> \in DOMAIN e
    BY DEF RevisionsIn
  <1>m. RowsMove(a[i], DOMAIN d, DOMAIN e)
    BY RowsAfter
  <1>1. CASE a[i].does \in Writing
    <2>1. <<"current", n>> \in a[i].keys => <<"revision", n>> \in DOMAIN d
      BY <1>1 DEF Sound, NodeRows, Effect
    <2> QED BY <1>1, <2>1, <1>m DEF RowsMove, Writing, RevisionsIn
  <1>2. CASE a[i].does = "delete"
    <2>1. <<"revision", n>>[1] \notin Removable
      BY DEF Removable
    <2> QED BY <1>2, <2>1, <1>m DEF RowsMove, Writing, RevisionsIn
  <1>3. CASE a[i].does = "find"
    BY <1>3, <1>m DEF RowsMove, Writing, RevisionsIn
  <1> QED BY <1>1, <1>2, <1>3, <1>m DEF RowsMove, Writing

\* A node is unfinished after a statement if it was before, or if the statement created it.
LEMMA UnfinishedOn ==
  ASSUME NEW a, Sound(a), NEW i \in DOMAIN a, NEW d, NEW e, Effect(a[i], d, e), NEW n \in Unfinished(DOMAIN e)
  PROVE  n \in Unfinished(DOMAIN d) \/ (a = CreateNodeWithRevision(n) /\ i = 2)
  <1>0. n \in ToSet(DemoNodes) /\ <<"node", n>> \in DOMAIN e /\ <<"current", n>> \notin DOMAIN e
    BY DEF Unfinished
  <1>m. RowsMove(a[i], DOMAIN d, DOMAIN e)
    BY RowsAfter
  <1>1. CASE a[i].does \in Writing
    <2>1. <<"node", n>> \in a[i].keys => a = CreateNodeWithRevision(n) /\ i = 2
      BY <1>0, <1>1 DEF Sound, NodeRows
    <2> QED BY <1>0, <1>1, <2>1, <1>m DEF RowsMove, Writing, Unfinished
  <1>2. CASE a[i].does = "delete"
    <2>1. <<"current", n>>[1] \notin Removable
      BY DEF Removable
    <2> QED BY <1>0, <1>2, <2>1, <1>m DEF RowsMove, Writing, Unfinished
  <1>3. CASE a[i].does = "find"
    BY <1>0, <1>3, <1>m DEF RowsMove, Writing, Unfinished
  <1> QED BY <1>1, <1>2, <1>3, <1>m DEF RowsMove, Writing

\* The last of the four statements that create a node finishes it.
LEMMA NodeFinished ==
  ASSUME NEW n \in ToSet(DemoNodes), NEW a, a = CreateNodeWithRevision(n), NEW i \in DOMAIN a, NEW d, NEW e, Effect(a[i], d, e)
  PROVE  Len(a) = 4 /\ DOMAIN a = 1..4 /\ (i # 1 => a[i].does \in Writing) /\ (i = 4 => n \notin Unfinished(DOMAIN e))
  <1>1. NodeShape(a, n)
    BY NodeStep
  <1>2. /\ a[1] = S("find", {<<"node", n>>}, {})
        /\ a[2] = S("create", {<<"node", n>>}, NodeNeeds(n))
        /\ a[3] = S("create", {<<"revision", n>>}, {<<"node", n>>})
        /\ a[4] = S("update", {<<"current", n>>}, {<<"node", n>>, <<"revision", n>>})
        /\ DOMAIN a = 1..4 /\ Len(a) = 4
    BY <1>1 DEF NodeShape, WellOrdered
  <1>3. a[2].does \in Writing /\ a[3].does \in Writing /\ a[4].does \in Writing /\ a[4].keys = {<<"current", n>>}
    BY <1>2, StatementIs DEF Writing
  <1>4. i # 1 => a[i].does \in Writing
    <2>1. i \in {1, 2, 3, 4}
      BY <1>2
    <2> QED BY <1>3, <2>1
  <1>5. i = 4 => <<"current", n>> \in DOMAIN e
    BY <1>3 DEF Effect
  <1> QED BY <1>2, <1>4, <1>5 DEF Unfinished

\* and the sets of seed-init.ts stay as they should.
LEMMA SetsOn ==
  ASSUME NEW a, Sound(a), NEW i \in DOMAIN a, NEW d, NEW e, Effect(a[i], d, e), SetsIn(DOMAIN d)
  PROVE  SetsIn(DOMAIN e)
  <1> SUFFICES ASSUME NEW set \in ToSet(InitRuleSets) PROVE SetIn(set, DOMAIN e)
    BY DEF SetsIn
  <1>0. SetIn(set, DOMAIN d)
    BY DEF SetsIn
  <1>m. RowsMove(a[i], DOMAIN d, DOMAIN e)
    BY RowsAfter
  <1>1. \/ a[i].does = "find" \/ a[i].keys \cap InitRows(set) = {}
        \/ a[i].does = "create" /\ \E run \in 1..Attempts : a[i].keys = SetBy(set, run)
    BY DEF Sound, SetRows
  <1>2. CASE \A r \in InitRows(set) : r \in DOMAIN e <=> r \in DOMAIN d
    <2>1. /\ <<"set", set[1]>> \in InitRows(set)
          /\ \A rule \in ToSet(set[2]) : <<"rule", rule>> \in InitRows(set) /\ Sources(rule) \subseteq InitRows(set)
      BY DEF InitRows, SourcesOf
    <2>2. \A rule \in ToSet(set[2]) : Sources(rule) \cap DOMAIN e = Sources(rule) \cap DOMAIN d
      BY <1>2, <2>1
    <2> QED BY <1>0, <1>2, <2>1, <2>2 DEF SetIn
  <1>3. CASE a[i].does = "find"
    BY <1>2, <1>3, <1>m DEF RowsMove, Writing
  <1>4. CASE a[i].keys \cap InitRows(set) = {}
    BY <1>2, <1>4, <1>m DEF RowsMove, Writing
  <1>5. CASE a[i].does = "create" /\ \E run \in 1..Attempts : a[i].keys = SetBy(set, run)
    <2>1. PICK run \in 1..Attempts : a[i].keys = SetBy(set, run)
      BY <1>5
    <2>2. DOMAIN e = SetBy(set, run) \cup DOMAIN d /\ SetBy(set, run) \cap DOMAIN d = {}
      BY <1>5, <2>1, <1>m DEF Effect, RowsMove, Writing
    <2>3. <<"set", set[1]>> \in SetBy(set, run)
      BY DEF SetBy
    <2>4. ASSUME NEW rule \in ToSet(set[2])
          PROVE  <<"rule", rule>> \in DOMAIN e /\ Sources(rule) \cap DOMAIN e = {Source(rule, run)} /\ Source(rule, run) \in Sources(rule)
      <3>1. Sources(rule) \cap DOMAIN d = {}
        BY <1>0, <2>2, <2>3 DEF SetIn
      <3>2. <<"rule", rule>> \in SetBy(set, run) /\ Source(rule, run) \in SetBy(set, run) /\ Source(rule, run) \in Sources(rule)
        BY DEF SetBy, Sources
      <3>3. ASSUME NEW r \in SetBy(set, run), r \in Sources(rule) PROVE r = Source(rule, run)
        BY <3>3 DEF SetBy, Sources, Source
      <3> QED BY <2>2, <3>1, <3>2, <3>3
    <2> QED BY <2>2, <2>3, <2>4 DEF SetIn
  <1> QED BY <1>1, <1>3, <1>4, <1>5

(***************************************************************************)
(* The invariant                                                           *)
(***************************************************************************)

Runs == [script : {"seed", "init"}, run : 1..Attempts, step : Nat, at : Nat, pc : {"running", "broken", "ended"}]

\* The rows and the run are well formed.
SeedTypes ==
    /\ \A r \in DOMAIN db : db[r] \in {"seed", "client"}
    /\ seeding \in Runs
    /\ seeding.step \in DOMAIN Script /\ seeding.at \in DOMAIN Step
    /\ cut \subseteq ToSet(DemoNodes) /\ untouched \in BOOLEAN /\ touched \in 0..MaxTouched

\* Unless a client has come in between: what the steps that are through have left is there, but
\* for what the current step is about to write anew; at the end all of it is there.
DoneInv ==
    untouched =>
      /\ Running => /\ \A i \in DOMAIN Script : i < seeding.step => Kept(Script[i], db) \/ Replaces(Script[i], Step)
                    /\ StepBegun(Step, seeding.at, db)
      /\ seeding.pc = "ended" => \A i \in DOMAIN Script : Kept(Script[i], db)

\* A node without a current revision is one at which a run broke off or is at work.
NodesInv ==
    \A n \in Unfinished(DOMAIN db) : n \in cut \/ (Running /\ seeding.at > 2 /\ Step = CreateNodeWithRevision(n))

\* Whatever was interrupted: what points to a revision has one, and sets are whole.
RowsInv == RevisionsIn(DOMAIN db) /\ SetsIn(DOMAIN db)

SeedInv == SeedTypes /\ DoneInv /\ NodesInv /\ RowsInv

\* Where the run is.
LEMMA Now ==
  ASSUME SeedTypes
  PROVE  /\ seeding.script \in {"seed", "init"} /\ seeding.run \in 1..Attempts
         /\ Len(Script) \in Nat /\ Len(Script) # 0 /\ DOMAIN Script = 1..Len(Script)
         /\ \A i \in DOMAIN Script : Script[i] \in StepsOf(seeding.script, seeding.run)
         /\ Step \in StepsOf(seeding.script, seeding.run) /\ Sound(Step)
         /\ Len(Step) \in Nat /\ DOMAIN Step = 1..Len(Step)
  <1>1. seeding.script \in {"seed", "init"} /\ seeding.run \in 1..Attempts /\ seeding.step \in DOMAIN Script
    BY DEF SeedTypes, Runs
  <1>2. /\ Len(Script) \in Nat /\ Len(Script) # 0 /\ DOMAIN Script = 1..Len(Script)
        /\ \A i \in DOMAIN Script : Script[i] \in StepsOf(seeding.script, seeding.run)
    BY <1>1, ScriptIs DEF Script
  <1>3. Step \in StepsOf(seeding.script, seeding.run)
    BY <1>1, <1>2 DEF Step
  <1>4. Sound(Step)
    BY <1>1, <1>3, StepsSound
  <1> QED BY <1>1, <1>2, <1>3, <1>4 DEF Sound, WellOrdered

\* A script has a first step, and that a first statement.
LEMMA Begins ==
  ASSUME NEW script \in {"seed", "init"}, NEW run \in 1..Attempts, NEW i \in DOMAIN Scripts[script][run]
  PROVE  1 \in DOMAIN Scripts[script][run] /\ 1 \in DOMAIN Scripts[script][run][i]
  <1> DEFINE steps == Scripts[script][run]
  <1>1. /\ Len(steps) \in Nat /\ Len(steps) # 0 /\ DOMAIN steps = 1..Len(steps)
        /\ \A j \in 1..Len(steps) : steps[j] \in StepsOf(script, run)
    BY ScriptIs
  <1> HIDE DEF steps
  <1>2. i \in DOMAIN steps
    BY DEF steps
  <1>3. Sound(steps[i])
    BY <1>1, <1>2, StepsSound
  <1>4. 1 \in DOMAIN steps /\ 1 \in DOMAIN steps[i]
    BY <1>1, <1>3 DEF Sound, WellOrdered
  <1> QED BY <1>4 DEF steps

\* A statement that is executed has its effect.
LEMMA EffectIs ==
  ASSUME SeedTypes, Executed
  PROVE  /\ Effect(Pending, db, db') /\ \A r \in DOMAIN db' : db'[r] \in {"seed", "client"}
  <1> DEFINE p == Pending
  <1>1. p.does \in Writing \cup {"delete", "find"}
    BY Now DEF SeedTypes, Pending, Sound, WellOrdered
  <1>2. /\ p.needs \subseteq DOMAIN db
        /\ \/ p.does \in {"upsert", "update"} /\ Written(p.keys)
           \/ p.does = "create" /\ p.keys \cap DOMAIN db = {} /\ Written(p.keys)
           \/ p.does = "delete" /\ db' = [r \in (DOMAIN db) \ p.keys |-> db[r]]
           \/ p.does = "find" /\ db' = db
    BY DEF Executed, Stored
  <1>3. \A r \in DOMAIN db : db[r] \in {"seed", "client"}
    BY DEF SeedTypes
  <1> HIDE DEF p
  <1>4. CASE p.does \in Writing
    <2>1. db' = [r \in p.keys \cup DOMAIN db |-> IF r \in p.keys THEN "seed" ELSE db[r]]
      BY <1>2, <1>4 DEF Written, Writing
    <2>2. DOMAIN db' = p.keys \cup DOMAIN db /\ \A r \in DOMAIN db' : db'[r] = IF r \in p.keys THEN "seed" ELSE db[r]
      BY <2>1
    <2>3. p.does = "create" => p.keys \cap DOMAIN db = {}
      BY <1>2
    <2>4. Effect(p, db, db')
      BY <1>2, <1>4, <2>2, <2>3 DEF Effect
    <2>5. \A r \in DOMAIN db' : db'[r] \in {"seed", "client"}
      BY <1>3, <2>2
    <2> QED BY <2>4, <2>5 DEF p
  <1>5. CASE p.does = "delete"
    <2>1. db' = [r \in (DOMAIN db) \ p.keys |-> db[r]]
      BY <1>2, <1>5
    <2>2. DOMAIN db' = (DOMAIN db) \ p.keys /\ \A r \in DOMAIN db' : db'[r] = db[r]
      BY <2>1
    <2>3. Effect(p, db, db')
      BY <1>2, <1>5, <2>2 DEF Effect, Writing
    <2> QED BY <1>3, <2>2, <2>3 DEF p
  <1>6. CASE p.does = "find"
    <2>1. db' = db
      BY <1>2, <1>6
    <2>2. Effect(p, db, db')
      BY <1>2, <1>6, <2>1 DEF Effect, Writing
    <2> QED BY <1>3, <2>1, <2>2 DEF p
  <1> QED BY <1>1, <1>4, <1>5, <1>6

\* The invariant holds at the beginning.
LEMMA SeedStart ==
  ASSUME SInit
  PROVE  SeedInv
  <1>1. 1 \in 1..Attempts
    BY SeedAssumption
  <1>2. PICK script \in {"seed", "init"} : seeding = [script |-> script, run |-> 1, step |-> 1, at |-> 1, pc |-> "running"]
    BY DEF SInit
  <1>3. /\ DOMAIN db = {} /\ cut = {} /\ touched = 0 /\ untouched = TRUE
    BY DEF SInit
  <1>4. Len(Scripts[script][1]) \in Nat /\ Len(Scripts[script][1]) # 0 /\ DOMAIN Scripts[script][1] = 1..Len(Scripts[script][1])
    BY <1>1, ScriptIs
  <1>5. 1 \in DOMAIN Scripts[script][1] /\ 1 \in DOMAIN Scripts[script][1][1]
    <2>1. 1 \in DOMAIN Scripts[script][1]
      BY <1>4
    <2> QED BY <1>1, <2>1, Begins
  <1>6. /\ seeding.script = script /\ seeding.run = 1 /\ seeding.step = 1 /\ seeding.at = 1 /\ seeding.pc = "running"
        /\ Script = Scripts[script][1] /\ Step = Script[1]
    BY <1>2 DEF Script, Step
  <1>7. SeedTypes
    BY <1>1, <1>2, <1>3, <1>5, <1>6, SeedAssumption DEF SeedTypes, Runs
  <1>8. DoneInv
    <2>1. \A i \in DOMAIN Script : ~(i < 1)
      BY <1>4, <1>6
    <2>2. StepBegun(Step, 1, db)
      <3>1. \A i \in DOMAIN Step : ~(i < 1)
        BY <1>7, Now
      <3> QED BY <3>1 DEF StepBegun
    <2> QED BY <1>6, <2>1, <2>2 DEF DoneInv
  <1>9. NodesInv
    BY <1>3 DEF NodesInv, Unfinished
  <1>10. RowsInv
    <2>1. \A set \in ToSet(InitRuleSets) : SetIn(set, {})
      BY DEF SetIn
    <2> QED BY <1>3, <2>1 DEF RowsInv, RevisionsIn, SetsIn
  <1> QED BY <1>7, <1>8, <1>9, <1>10 DEF SeedInv

\* Where a run goes after a statement: on in its step, to the next step, or to its end.
LEMMA Goes ==
  ASSUME SeedTypes, Execute
  PROVE  /\ Executed /\ Running /\ UNCHANGED <<cut, untouched, touched>>
         /\ seeding'.script = seeding.script /\ seeding'.run = seeding.run /\ Script' = Script
         /\ seeding' \in Runs
         /\ \/ /\ seeding.at < Len(Step) /\ ~Found
               /\ seeding' = [seeding EXCEPT !.at = @ + 1]
               /\ seeding'.step = seeding.step /\ seeding'.at = seeding.at + 1 /\ seeding'.pc = "running" /\ Step' = Step
            \/ /\ ~(seeding.at < Len(Step) /\ ~Found) /\ seeding.step < Len(Script)
               /\ seeding' = [seeding EXCEPT !.step = @ + 1, !.at = 1]
               /\ seeding'.step = seeding.step + 1 /\ seeding'.at = 1 /\ seeding'.pc = "running"
               /\ Step' = Script[seeding.step + 1]
            \/ /\ ~(seeding.at < Len(Step) /\ ~Found) /\ ~(seeding.step < Len(Script))
               /\ seeding' = [seeding EXCEPT !.pc = "ended", !.step = 1, !.at = 1]
               /\ seeding'.step = 1 /\ seeding'.at = 1 /\ seeding'.pc = "ended"
  <1>1. /\ seeding.pc = "running" /\ seeding \in Runs
    BY DEF SeedTypes, Execute, Running
  <1>2. seeding' = IF seeding.at < Len(Step) /\ ~Found THEN [seeding EXCEPT !.at = @ + 1]
                   ELSE IF seeding.step < Len(Script) THEN [seeding EXCEPT !.step = @ + 1, !.at = 1]
                   ELSE [seeding EXCEPT !.pc = "ended", !.step = 1, !.at = 1]
    BY DEF Execute
  <1>3. seeding'.script = seeding.script /\ seeding'.run = seeding.run
    BY <1>1, <1>2
  <1>4. Script' = Script
    BY <1>3 DEF Script
  <1>5. CASE seeding.at < Len(Step) /\ ~Found
    <2>1. seeding' = [seeding EXCEPT !.at = @ + 1]
      BY <1>2, <1>5
    <2>2. seeding'.step = seeding.step /\ seeding'.at = seeding.at + 1 /\ seeding'.pc = "running"
      BY <1>1, <2>1
    <2>3. PICK next \in Nat : next = seeding.at + 1
      BY <1>1 DEF Runs
    <2>4. seeding' = [seeding EXCEPT !.at = next]
      BY <2>1, <2>3
    <2>5. seeding' \in Runs
      BY <1>1, <2>4 DEF Runs
    <2> QED BY <1>3, <1>4, <1>5, <2>1, <2>2, <2>5 DEF Execute, Step
  <1>6. CASE ~(seeding.at < Len(Step) /\ ~Found) /\ seeding.step < Len(Script)
    <2>1. seeding' = [seeding EXCEPT !.step = @ + 1, !.at = 1]
      BY <1>2, <1>6
    <2>2. seeding'.step = seeding.step + 1 /\ seeding'.at = 1 /\ seeding'.pc = "running"
      BY <1>1, <2>1
    <2>3. PICK next \in Nat : next = seeding.step + 1
      BY <1>1 DEF Runs
    <2>4. seeding' = [seeding EXCEPT !.step = next, !.at = 1]
      BY <2>1, <2>3
    <2>5. seeding' \in Runs
      BY <1>1, <2>4 DEF Runs
    <2> QED BY <1>3, <1>4, <1>6, <2>1, <2>2, <2>5 DEF Execute, Step
  <1>7. CASE ~(seeding.at < Len(Step) /\ ~Found) /\ ~(seeding.step < Len(Script))
    <2>1. seeding' = [seeding EXCEPT !.pc = "ended", !.step = 1, !.at = 1]
      BY <1>2, <1>7
    <2>2. /\ seeding'.step = 1 /\ seeding'.at = 1 /\ seeding'.pc = "ended"
          /\ seeding' \in Runs
      BY <1>1, <2>1 DEF Runs
    <2> QED BY <1>3, <1>4, <1>7, <2>1, <2>2 DEF Execute
  <1> QED BY <1>5, <1>6, <1>7

\* A step that is through has left what it promises, and so have those before it.
LEMMA StepThrough ==
  ASSUME SeedInv, Execute, untouched, ~(seeding.at < Len(Step) /\ ~Found)
  PROVE  \A i \in DOMAIN Script : i <= seeding.step => Kept(Script[i], db')
  <1>1. /\ Effect(Pending, db, db') /\ Pending = Step[seeding.at] /\ seeding.at \in DOMAIN Step /\ Sound(Step)
        /\ Step \in StepsOf(seeding.script, seeding.run) /\ Running /\ Len(Step) \in Nat /\ DOMAIN Step = 1..Len(Step)
    BY EffectIs, Goes, Now DEF SeedInv, SeedTypes, Pending
  <1>2. StepBegun(Step, seeding.at, db)
    BY <1>1 DEF SeedInv, DoneInv
  <1>3. seeding.at = Len(Step) \/ (Step[seeding.at].does = "find" /\ Step[seeding.at].keys \subseteq DOMAIN db)
    BY <1>1 DEF Found, Stored
  <1>4. Kept(Step, db')
    BY <1>1, <1>2, <1>3, StepKept
  <1>5. ASSUME NEW i \in DOMAIN Script, i <= seeding.step PROVE Kept(Script[i], db')
    <2>1. CASE i = seeding.step
      BY <1>4, <2>1 DEF Step
    <2>2. CASE i < seeding.step
      <3>1. Script[i] \in StepsOf(seeding.script, seeding.run) /\ seeding.script \in {"seed", "init"} /\ seeding.run \in 1..Attempts
        BY Now DEF SeedInv
      <3>2. Kept(Script[i], db) \/ Replaces(Script[i], Step)
        BY <1>1, <2>2 DEF SeedInv, DoneInv
      <3>3. Kept(Script[i], db') \/ Replaces(Script[i], Step)
        BY <1>1, <3>1, <3>2, KeptOn
      <3> QED BY <1>4, <3>3, ReplacedKept
    <2>3. i \in Nat /\ seeding.step \in Nat
      BY Now DEF SeedInv, SeedTypes
    <2> QED BY <1>5, <2>1, <2>2, <2>3
  <1> QED BY <1>5

\* It is kept by each step of the specification: by a statement that is executed, part by part,
LEMMA ExecuteTypes ==
  ASSUME SeedTypes, Execute
  PROVE  SeedTypes'
  <1>1. /\ seeding \in Runs
        /\ seeding.step \in DOMAIN Script /\ seeding.at \in DOMAIN Step
    BY DEF SeedTypes
  <1>2. seeding' \in Runs
    BY <1>1, Goes
  <1>3. seeding'.step \in DOMAIN Script' /\ seeding'.at \in DOMAIN Step'
    <2>1. CASE seeding'.step = seeding.step /\ seeding'.at = seeding.at + 1 /\ Step' = Step /\ seeding.at < Len(Step)
      BY <1>1, <2>1, Goes, Now
    <2>2. CASE seeding'.at = 1 /\ seeding'.step \in DOMAIN Script
      <3>1. /\ seeding'.step \in DOMAIN Script' /\ Script' = Scripts[seeding'.script][seeding'.run]
            /\ seeding'.script \in {"seed", "init"} /\ seeding'.run \in 1..Attempts /\ Step' = Script'[seeding'.step]
        BY <1>2, <2>2, Goes DEF Script, Step, Runs
      <3>2. 1 \in DOMAIN Script'[seeding'.step]
        BY <3>1, Begins
      <3> QED BY <2>2, <3>1, <3>2
    <2> QED BY <1>1, <2>1, <2>2, Goes, Now
  <1>4. \A r \in DOMAIN db' : db'[r] \in {"seed", "client"}
    BY EffectIs, Goes
  <1>5. cut' = cut /\ untouched' = untouched /\ touched' = touched
    BY Goes
  <1> QED BY <1>2, <1>3, <1>4, <1>5 DEF SeedTypes

\* what the steps before have done,
LEMMA ExecuteDone ==
  ASSUME SeedInv, Execute
  PROVE  DoneInv'
  <1> SUFFICES ASSUME untouched
               PROVE  /\ Running' => /\ \A i \in DOMAIN Script' : i < seeding'.step => Kept(Script'[i], db') \/ Replaces(Script'[i], Step')
                                     /\ StepBegun(Step', seeding'.at, db')
                      /\ seeding'.pc = "ended" => \A i \in DOMAIN Script' : Kept(Script'[i], db')
    BY Goes DEF SeedInv, DoneInv
  <1>1. /\ Effect(Pending, db, db') /\ Pending = Step[seeding.at] /\ seeding.at \in DOMAIN Step /\ Sound(Step)
        /\ Step \in StepsOf(seeding.script, seeding.run) /\ Running /\ Len(Step) \in Nat /\ DOMAIN Step = 1..Len(Step)
        /\ Script' = Script
    BY EffectIs, Goes, Now DEF SeedInv, SeedTypes, Pending
  <1>2. CASE seeding.at < Len(Step) /\ ~Found
    <2>1. seeding'.step = seeding.step /\ seeding'.at = seeding.at + 1 /\ seeding'.pc = "running" /\ Step' = Step
      BY <1>2, Goes DEF SeedInv
    <2>2. ASSUME NEW i \in DOMAIN Script, i < seeding.step PROVE Kept(Script[i], db') \/ Replaces(Script[i], Step)
      <3>1. Script[i] \in StepsOf(seeding.script, seeding.run) /\ seeding.script \in {"seed", "init"} /\ seeding.run \in 1..Attempts
        BY Now DEF SeedInv
      <3>2. Kept(Script[i], db) \/ Replaces(Script[i], Step)
        BY <1>1, <2>2 DEF SeedInv, DoneInv
      <3> QED BY <1>1, <3>1, <3>2, KeptOn
    <2>3. StepBegun(Step, seeding.at, db)
      BY <1>1 DEF SeedInv, DoneInv
    <2>4. StepBegun(Step, seeding.at + 1, db')
      <3>1. \A j \in DOMAIN Step : j < seeding.at + 1 => j <= seeding.at
        BY <1>1
      <3>2. \A j \in DOMAIN Step : j <= seeding.at =>
              /\ Step[j].does \in Writing => Mine(Step[j].keys, db')
              /\ Step[j].does = "delete" => Step[j].keys \cap DOMAIN db' = {}
        BY <1>1, <1>2, <2>3, BegunOn
      <3> QED BY <3>1, <3>2 DEF StepBegun
    <2> QED BY <1>1, <2>1, <2>2, <2>4
  <1>3. CASE ~(seeding.at < Len(Step) /\ ~Found)
    <2>1. \A i \in DOMAIN Script : i <= seeding.step => Kept(Script[i], db')
      BY <1>3, StepThrough
    <2>2. Len(Script) \in Nat /\ DOMAIN Script = 1..Len(Script) /\ seeding.step \in DOMAIN Script
      BY Now DEF SeedInv, SeedTypes
    <2>3. CASE seeding.step < Len(Script)
      <3>1. seeding'.step = seeding.step + 1 /\ seeding'.at = 1 /\ seeding'.pc = "running"
        BY <1>3, <2>3, Goes DEF SeedInv
      <3>2. \A i \in DOMAIN Script : i < seeding.step + 1 => i <= seeding.step
        BY <2>2
      <3>3. StepBegun(Step', 1, db')
        <4>1. \A i \in DOMAIN Step' : ~(i < 1)
          <5>1. SeedTypes'
            BY ExecuteTypes DEF SeedInv
          <5>2. (Len(Step) \in Nat /\ DOMAIN Step = 1..Len(Step))'
            BY <5>1, Now
          <5> QED BY <5>2
        <4> QED BY <4>1 DEF StepBegun
      <3> QED BY <1>1, <2>1, <3>1, <3>2, <3>3
    <2>4. CASE ~(seeding.step < Len(Script))
      <3>1. seeding'.pc = "ended"
        BY <1>3, <2>4, Goes DEF SeedInv
      <3>2. \A i \in DOMAIN Script : i <= seeding.step
        BY <2>2, <2>4
      <3> QED BY <1>1, <2>1, <3>1, <3>2 DEF Running
    <2> QED BY <2>3, <2>4
  <1> QED BY <1>2, <1>3

\* what there is of the nodes and the sets;
LEMMA ExecuteNodes ==
  ASSUME SeedInv, Execute
  PROVE  NodesInv' /\ RowsInv'
  <1>1. /\ Effect(Pending, db, db') /\ Pending = Step[seeding.at] /\ seeding.at \in DOMAIN Step /\ Sound(Step)
        /\ Running /\ cut' = cut
    BY EffectIs, Goes, Now DEF SeedInv, SeedTypes, Pending
  <1>2. RowsInv'
    BY <1>1, RevisionsOn, SetsOn DEF SeedInv, RowsInv
  <1>3. ASSUME NEW n \in Unfinished(DOMAIN db')
        PROVE  n \in cut \/ (Running' /\ seeding'.at > 2 /\ Step' = CreateNodeWithRevision(n))
    <2>1. n \in Unfinished(DOMAIN db) \/ (Step = CreateNodeWithRevision(n) /\ seeding.at = 2)
      BY <1>1, UnfinishedOn
    <2>2. SUFFICES ASSUME n \notin cut PROVE Running' /\ seeding'.at > 2 /\ Step' = CreateNodeWithRevision(n)
      OBVIOUS
    <2>3. Step = CreateNodeWithRevision(n) /\ seeding.at \in Nat /\ seeding.at >= 2
      BY <2>1, <2>2 DEF SeedInv, NodesInv, SeedTypes, Runs
    <2>4. n \in ToSet(DemoNodes)
      BY DEF Unfinished
    <2>5. Len(Step) = 4 /\ DOMAIN Step = 1..4 /\ Pending.does \in Writing /\ seeding.at # 4
      BY <1>1, <2>3, <2>4, NodeFinished
    <2>6. seeding.at < Len(Step) /\ ~Found
      BY <1>1, <2>3, <2>5 DEF Found, Writing
    <2>7. seeding'.at = seeding.at + 1 /\ seeding'.pc = "running" /\ Step' = Step
      BY <2>6, Goes DEF SeedInv
    <2> QED BY <2>3, <2>7 DEF Running
  <1> QED BY <1>1, <1>2, <1>3 DEF NodesInv

\* where a run breaks off;
LEMMA BreakStep ==
  ASSUME SeedInv, Break
  PROVE  SeedInv'
  <1>1. /\ Executed \/ db' = db
        /\ cut' = Unfinished(DOMAIN db') /\ untouched' = untouched /\ touched' = touched /\ Running
        /\ seeding' = [seeding EXCEPT !.pc = "broken", !.step = 1, !.at = 1]
    BY DEF Break
  <1>2. /\ seeding \in Runs
        /\ seeding.step \in DOMAIN Script /\ seeding.at \in DOMAIN Step /\ SeedTypes
    BY DEF SeedInv, SeedTypes
  <1>3. /\ seeding'.script = seeding.script /\ seeding'.run = seeding.run /\ seeding'.step = 1 /\ seeding'.at = 1
        /\ seeding'.pc = "broken"
        /\ seeding' \in Runs
    BY <1>1, <1>2 DEF Runs
  <1>4. 1 \in DOMAIN Script' /\ 1 \in DOMAIN Step'
    <2>1. 1 \in DOMAIN Scripts[seeding.script][seeding.run]
      BY <1>2, Now, Begins DEF Script
    <2>2. 1 \in DOMAIN Scripts[seeding.script][seeding.run][1]
      BY <1>2, <2>1, Now, Begins
    <2> QED BY <1>3, <2>1, <2>2 DEF Script, Step
  <1>5. (\A r \in DOMAIN db' : db'[r] \in {"seed", "client"}) /\ RowsInv'
    <2>1. CASE Executed
      <3>1. Effect(Pending, db, db') /\ Pending = Step[seeding.at] /\ Sound(Step) /\ \A r \in DOMAIN db' : db'[r] \in {"seed", "client"}
        BY <1>2, <2>1, EffectIs, Now DEF Pending
      <3> QED BY <1>2, <3>1, RevisionsOn, SetsOn DEF SeedInv, RowsInv
    <2>2. CASE db' = db
      BY <1>2, <2>2 DEF SeedInv, SeedTypes, RowsInv
    <2> QED BY <1>1, <2>1, <2>2
  <1>6. SeedTypes'
    BY <1>1, <1>2, <1>3, <1>4, <1>5 DEF SeedTypes, Unfinished
  <1>7. DoneInv'
    BY <1>3 DEF DoneInv, Running
  <1>8. NodesInv'
    BY <1>1 DEF NodesInv
  <1> QED BY <1>5, <1>6, <1>7, <1>8 DEF SeedInv

\* where another one starts;
LEMMA StartStep ==
  ASSUME NEW script \in {"seed", "init"}, SeedInv, Start(script)
  PROVE  SeedInv'
  <1>1. /\ ~Running /\ seeding.run < Attempts /\ untouched' = TRUE /\ db' = db /\ cut' = cut /\ touched' = touched
        /\ seeding' = [script |-> script, run |-> seeding.run + 1, step |-> 1, at |-> 1, pc |-> "running"]
    BY DEF Start
  <1>2. seeding.run + 1 \in 1..Attempts
    BY <1>1, SeedAssumption DEF SeedInv, SeedTypes, Runs
  <1>3. /\ seeding'.script = script /\ seeding'.run = seeding.run + 1 /\ seeding'.step = 1 /\ seeding'.at = 1
        /\ seeding'.pc = "running"
        /\ seeding' \in Runs
    BY <1>1, <1>2 DEF Runs
  <1>4. 1 \in DOMAIN Script' /\ 1 \in DOMAIN Step'
    <2> DEFINE next == seeding.run + 1
    <2>0. next \in 1..Attempts
      BY <1>2
    <2>1. Script' = Scripts[script][next] /\ Step' = Scripts[script][next][1]
      BY <1>3 DEF Script, Step
    <2> HIDE DEF next
    <2>2. 1 \in DOMAIN Scripts[script][next]
      BY <2>0, ScriptIs
    <2> QED BY <2>0, <2>1, <2>2, Begins
  <1>5. SeedTypes'
    BY <1>1, <1>3, <1>4 DEF SeedInv, SeedTypes
  <1>6. DoneInv'
    <2>1. (DOMAIN Script = 1..Len(Script) /\ Len(Script) \in Nat /\ DOMAIN Step = 1..Len(Step) /\ Len(Step) \in Nat)'
      BY <1>5, Now
    <2>2. \A i \in DOMAIN Script' : ~(i < 1)
      BY <2>1
    <2>3. \A i \in DOMAIN Step' : ~(i < 1)
      BY <2>1
    <2>4. StepBegun(Step', 1, db')
      BY <2>3 DEF StepBegun
    <2> QED BY <1>3, <2>2, <2>4 DEF DoneInv
  <1>7. NodesInv'
    BY <1>1 DEF SeedInv, NodesInv
  <1>8. RowsInv'
    BY <1>1 DEF SeedInv, RowsInv
  <1> QED BY <1>5, <1>6, <1>7, <1>8 DEF SeedInv

\* Neither a row that a client removes nor one it changes counts for the revisions or the rule sets.
LEMMA ClientRows ==
  ASSUME NEW d, NEW gone, gone[1] \in {"node", "edge"}, NEW these, these = d \ {gone}, RevisionsIn(d), SetsIn(d)
  PROVE  RevisionsIn(these) /\ SetsIn(these)
  <1>1. RevisionsIn(these)
    <2>1. \A n : <<"revision", n>>[1] = "revision"
      OBVIOUS
    <2> QED BY <2>1 DEF RevisionsIn
  <1>2. ASSUME NEW set \in ToSet(InitRuleSets) PROVE SetIn(set, these)
    <2>1. \A r \in InitRows(set) : r \in these <=> r \in d
      <3>1. \A r \in InitRows(set) : r[1] \in {"set", "rule", "source"}
        BY InitRowKinds
      <3> QED BY <3>1
    <2>2. /\ <<"set", set[1]>> \in InitRows(set)
          /\ \A rule \in ToSet(set[2]) : <<"rule", rule>> \in InitRows(set) /\ Sources(rule) \subseteq InitRows(set)
      BY DEF InitRows, SourcesOf
    <2>3. \A rule \in ToSet(set[2]) : Sources(rule) \cap these = Sources(rule) \cap d
      BY <2>1, <2>2
    <2>4. SetIn(set, d)
      BY DEF SetsIn
    <2> QED BY <2>1, <2>2, <2>3, <2>4 DEF SetIn
  <1> QED BY <1>1, <1>2 DEF SetsIn

\* where a client does something;
LEMMA ClientStep ==
  ASSUME SeedInv, ClientChange
  PROVE  SeedInv'
  <1>1. /\ touched < MaxTouched /\ touched' = touched + 1 /\ untouched' = FALSE /\ seeding' = seeding
        /\ \/ /\ cut' = cut
              /\ \E r \in DOMAIN db : db' = [db EXCEPT ![r] = "client"]
           \/ /\ cut' = cut
              /\ \E r \in DOMAIN db : r[1] = "edge" /\ db' = [s \in (DOMAIN db) \ {r} |-> db[s]]
           \/ \E n \in ToSet(DemoNodes) : cut' = cut \ {n} /\ db' = [s \in (DOMAIN db) \ {<<"node", n>>} |-> db[s]]
    BY DEF ClientChange, UpdateRow, RemoveLink, RemoveNode
  <1>2. Script' = Script /\ Step' = Step /\ Running' = Running
    BY <1>1 DEF Script, Step, Running
  <1>3. /\ \A r \in DOMAIN db : db[r] \in {"seed", "client"}
        /\ cut \subseteq ToSet(DemoNodes) /\ touched \in Nat /\ MaxTouched \in Nat
        /\ RevisionsIn(DOMAIN db) /\ SetsIn(DOMAIN db)
    BY SeedAssumption DEF SeedInv, SeedTypes, RowsInv
  <1>4. /\ \A r \in DOMAIN db' : db'[r] \in {"seed", "client"}
        /\ RevisionsIn(DOMAIN db') /\ SetsIn(DOMAIN db') /\ cut' \subseteq cut
        /\ \A n \in Unfinished(DOMAIN db') : n \in Unfinished(DOMAIN db) /\ (n \in cut => n \in cut')
    <2>1. CASE cut' = cut /\ \E r \in DOMAIN db : db' = [db EXCEPT ![r] = "client"]
      <3>1. PICK r \in DOMAIN db : db' = [db EXCEPT ![r] = "client"]
        BY <2>1
      <3>2. DOMAIN db' = DOMAIN db /\ \A s \in DOMAIN db' : db'[s] \in {"client", db[s]}
        BY <3>1
      <3> QED BY <1>3, <2>1, <3>2
    <2>2. CASE cut' = cut /\ \E r \in DOMAIN db : r[1] = "edge" /\ db' = [s \in (DOMAIN db) \ {r} |-> db[s]]
      <3>1. PICK r \in DOMAIN db : r[1] = "edge" /\ db' = [s \in (DOMAIN db) \ {r} |-> db[s]]
        BY <2>2
      <3>2. DOMAIN db' = (DOMAIN db) \ {r} /\ \A s \in DOMAIN db' : db'[s] = db[s]
        BY <3>1
      <3>3. RevisionsIn(DOMAIN db') /\ SetsIn(DOMAIN db')
        BY <1>3, <3>1, <3>2, ClientRows
      <3>4. \A n : <<"current", n>>[1] = "current"
        OBVIOUS
      <3>5. \A n \in Unfinished(DOMAIN db') : n \in Unfinished(DOMAIN db)
        BY <3>1, <3>2, <3>4 DEF Unfinished
      <3> QED BY <1>3, <2>2, <3>2, <3>3, <3>5
    <2>3. CASE \E n \in ToSet(DemoNodes) : cut' = cut \ {n} /\ db' = [s \in (DOMAIN db) \ {<<"node", n>>} |-> db[s]]
      <3>1. PICK m \in ToSet(DemoNodes) : cut' = cut \ {m} /\ db' = [s \in (DOMAIN db) \ {<<"node", m>>} |-> db[s]]
        BY <2>3
      <3>2. DOMAIN db' = (DOMAIN db) \ {<<"node", m>>} /\ \A s \in DOMAIN db' : db'[s] = db[s]
        BY <3>1
      <3>3. RevisionsIn(DOMAIN db') /\ SetsIn(DOMAIN db')
        <4>1. <<"node", m>>[1] \in {"node", "edge"}
          OBVIOUS
        <4> QED BY <1>3, <3>2, <4>1, ClientRows
      <3>4. \A n : <<"current", n>> # <<"node", m>>
        OBVIOUS
      <3>5. \A n \in Unfinished(DOMAIN db') : n \in Unfinished(DOMAIN db) /\ n # m
        BY <3>2, <3>4 DEF Unfinished
      <3> QED BY <1>3, <3>1, <3>2, <3>3, <3>5
    <2> QED BY <1>1, <2>1, <2>2, <2>3
  <1>5. touched' \in 0..MaxTouched
    BY <1>1, <1>3
  <1>6. SeedTypes'
    BY <1>1, <1>2, <1>4, <1>5 DEF SeedInv, SeedTypes
  <1>7. DoneInv'
    BY <1>1 DEF DoneInv
  <1>8. NodesInv'
    BY <1>1, <1>2, <1>4 DEF SeedInv, NodesInv
  <1> QED BY <1>4, <1>6, <1>7, <1>8 DEF SeedInv, RowsInv

\* and where nothing happens.
LEMMA SeedSteady ==
  ASSUME SeedInv, UNCHANGED seedVars
  PROVE  SeedInv'
  <1>1. db' = db /\ seeding' = seeding /\ cut' = cut /\ untouched' = untouched /\ touched' = touched
    BY DEF seedVars
  <1>2. Script' = Script /\ Step' = Step /\ Running' = Running
    BY <1>1 DEF Script, Step, Running
  <1>3. SeedTypes'
    BY <1>1, <1>2 DEF SeedInv, SeedTypes
  <1>4. DoneInv'
    BY <1>1, <1>2 DEF SeedInv, DoneInv
  <1>5. NodesInv' /\ RowsInv'
    BY <1>1, <1>2 DEF SeedInv, NodesInv, RowsInv
  <1> QED BY <1>3, <1>4, <1>5 DEF SeedInv

\* Every step of the seed and of its clients keeps the invariant.
LEMMA SeedStep ==
  ASSUME SeedInv, [SNext]_seedVars
  PROVE  SeedInv'
  <1>1. CASE Execute
    BY <1>1, ExecuteTypes, ExecuteDone, ExecuteNodes DEF SeedInv
  <1>2. CASE Break
    BY <1>2, BreakStep
  <1>3. CASE RunPrismaCommand
    BY <1>3, StartStep DEF RunPrismaCommand
  <1>4. CASE RunSeedInit
    BY <1>4, StartStep DEF RunSeedInit
  <1>5. CASE ClientChange
    BY <1>5, ClientStep
  <1>6. CASE UNCHANGED seedVars
    BY <1>6, SeedSteady
  <1> QED BY <1>1, <1>2, <1>3, <1>4, <1>5, <1>6 DEF SNext

(***************************************************************************)
(* What a run that ends well leaves                                        *)
(***************************************************************************)

\* After a run of seed.ts that no client disturbed each of its steps is kept.
LEMMA EndKept ==
  ASSUME SeedInv, seeding.pc = "ended", untouched
  PROVE  \A step \in StepsOf(seeding.script, seeding.run) : Kept(step, db)
  <1>1. seeding.script \in {"seed", "init"} /\ seeding.run \in 1..Attempts
    BY Now DEF SeedInv
  <1>2. \A step \in StepsOf(seeding.script, seeding.run) : \E i \in 1..Len(Script) : Script[i] = step
    BY <1>1, ScriptIs DEF Script
  <1>3. DOMAIN Script = 1..Len(Script)
    BY Now DEF SeedInv
  <1>4. \A i \in DOMAIN Script : Kept(Script[i], db)
    BY DEF SeedInv, DoneInv
  <1> QED BY <1>2, <1>3, <1>4

\* An upsert that is kept has left its row, as the seed wrote it,
LEMMA UpsertKept ==
  ASSUME NEW key, NEW needs, Kept(Upsert(key, needs), db)
  PROVE  Stored({key}) /\ db[key] = "seed"
  <1>1. PICK step : step = Upsert(key, needs)
    OBVIOUS
  <1>2. UpsertShape(step, key, needs) /\ Kept(step, db)
    BY <1>1, UpsertStep
  <1>3. step[1].does = "upsert" /\ WrittenBy(step) = {key}
    BY <1>2 DEF UpsertShape
  <1> QED BY <1>2, <1>3 DEF Kept, Mine, Stored

\* the step of a rule the rule with one source,
LEMMA RuleKept ==
  ASSUME NEW rule, NEW set, NEW run \in 1..Attempts, Kept(SeedRule(rule, set, run), db)
  PROVE  Stored({<<"rule", rule>>}) /\ \E source \in Sources(rule) : Sources(rule) \cap DOMAIN db = {source}
  <1>1. PICK step : step = SeedRule(rule, set, run)
    OBVIOUS
  <1>2. RuleShape(step, rule, set, run) /\ Kept(step, db)
    BY <1>1, RuleStep
  <1>3. step[1].does = "upsert" /\ WrittenBy(step) = {<<"rule", rule>>, Source(rule, run)} /\ DeletedBy(step) = Sources(rule)
    BY <1>2, StatementIs DEF RuleShape
  <1>4. /\ <<"rule", rule>> \in DOMAIN db /\ Source(rule, run) \in DOMAIN db
        /\ Sources(rule) \cap DOMAIN db \subseteq {<<"rule", rule>>, Source(rule, run)}
    BY <1>2, <1>3 DEF Kept, Mine
  <1>5. Source(rule, run) \in Sources(rule) /\ \A s \in Sources(rule) : s # <<"rule", rule>>
    BY DEF Sources, Source
  <1>6. Sources(rule) \cap DOMAIN db = {Source(rule, run)}
    BY <1>4, <1>5
  <1> QED BY <1>4, <1>5, <1>6 DEF Stored

\* the step of the rows of an audit these rows,
LEMMA ChildrenKept ==
  ASSUME NEW kind, NEW audit, Kept(SeedChildren(kind, audit), db)
  PROVE  \A r \in Children(kind, audit) : Stored({r}) /\ db[r] = "seed"
  <1>1. PICK step : step = SeedChildren(kind, audit)
    OBVIOUS
  <1>2. ChildrenShape(step, kind, audit) /\ Kept(step, db)
    BY <1>1, ChildrenStep
  <1>3. step[1].does = "delete" /\ WrittenBy(step) = Children(kind, audit)
    BY <1>2, StatementIs DEF ChildrenShape
  <1> QED BY <1>2, <1>3 DEF Kept, Mine, Stored

\* and one that looks for a row that row.
LEMMA FoundKept ==
  ASSUME NEW step, NEW key, step[1] = S("find", {key}, {}), Kept(step, db)
  PROVE  Stored({key})
  <1>1. S("find", {key}, {}).does = "find" /\ S("find", {key}, {}).keys = {key}
    BY StatementIs
  <1> QED BY <1>1 DEF Kept, Stored

\* The rules of all rule sets, as SeededRules lists them.
LEMMA RulesListed ==
  ASSUME NEW rule \in ToSet(SeededRules)
  PROVE  \E set \in ToSet(RuleSets) : rule \in ToSet(set[2])
  <1> DEFINE parts == [i \in DOMAIN RuleSets |-> RuleSets[i][2]]
             f == [set \in ToSet(RuleSets) |-> set[2]]
  <1>1. \A i \in DOMAIN RuleSets : RuleSets[i] \in ToSet(RuleSets)
    BY DEF ToSet
  <1>2. parts = [i \in DOMAIN RuleSets |-> f[RuleSets[i]]]
    BY <1>1
  <1>3. SeededRules = FlattenSeq(parts)
    BY DEF SeededRules
  <1>4. \A i \in DOMAIN RuleSets : parts[i] = RuleSets[i][2]
    OBVIOUS
  <1> HIDE DEF parts, f
  <1>5. Sequence(parts) /\ parts # <<>> /\ DOMAIN parts = DOMAIN RuleSets
    BY <1>2, Declared, Mapped
  <1>6. \A i \in DOMAIN parts : Sequence(parts[i])
    BY <1>1, <1>4, <1>5, DeclaredRules
  <1>7. ToSet(FlattenSeq(parts)) = UNION {ToSet(parts[i]) : i \in DOMAIN parts}
    BY <1>5, <1>6, Flattened
  <1>8. PICK i \in DOMAIN parts : rule \in ToSet(parts[i])
    BY <1>3, <1>7
  <1> QED BY <1>1, <1>4, <1>5, <1>8

\* What a run of seed-init.ts has left that ended well, undisturbed,
LEMMA InitRepairs ==
  ASSUME SeedInv, seeding.pc = "ended", untouched, seeding.script = "init"
  PROVE  WithSource(UNION {ToSet(set[2]) : set \in ToSet(InitRuleSets)})
  <1>1. seeding.run \in 1..Attempts
    BY Now DEF SeedInv
  <1>2. ASSUME NEW set \in ToSet(InitRuleSets), NEW rule \in ToSet(set[2])
        PROVE  Stored({<<"rule", rule>>}) /\ \E source \in Sources(rule) : Sources(rule) \cap DOMAIN db = {source}
    <2>1. PICK step : step = EnsureRuleSet(set, seeding.run)
      OBVIOUS
    <2>2. step \in StepsOf(seeding.script, seeding.run)
      BY <2>1 DEF StepsOf, InitSteps
    <2>3. Kept(step, db)
      BY <2>2, EndKept
    <2>4. <<"set", set[1]>> \in SetBy(set, seeding.run) /\ step = Ensured(<<"set", set[1]>>, SetBy(set, seeding.run), {})
      BY <2>1 DEF EnsureRuleSet, SetBy, Ensured
    <2>5. EnsureShape(step, <<"set", set[1]>>, SetBy(set, seeding.run), {})
      BY <2>4, EnsureStep
    <2>6. Stored({<<"set", set[1]>>})
      BY <2>3, <2>5, FoundKept DEF EnsureShape
    <2>7. SetIn(set, DOMAIN db)
      BY DEF SeedInv, RowsInv, SetsIn
    <2> QED BY <2>6, <2>7 DEF SetIn, Stored
  <1> QED BY <1>2 DEF WithSource

\* and what a run of seed.ts has.
LEMMA SeedRepairs ==
  ASSUME SeedInv, seeding.pc = "ended", untouched, seeding.script = "seed"
  PROVE  /\ \A r \in {<<"policy">>, <<"tenant">>, <<"project">>}
                  \cup {<<"template", t>> : t \in ToSet(Templates)}
                  \cup {<<"type", t>> : t \in ToSet(ComponentTypes)}
                  \cup {<<"component", c[1]>> : c \in ToSet(DemoComponents)}
                  \cup UNION {Children(kind, audit) : kind \in {"checklist", "finding", "action"},
                                                      audit \in ToSet(DemoAudits)} :
               Stored({r}) /\ db[r] = "seed"
         /\ WithSource(ToSet(SeededRules))
         /\ \A e \in ToSet(DemoEdges) : Stored({<<"edge", e>>, <<"node", e[1]>>, <<"node", e[2]>>})
         /\ \A n \in ToSet(DemoNodes) :
               Stored({<<"node", n>>}) /\ (n \notin cut => Stored({<<"revision", n>>, <<"current", n>>}))
  <1> DEFINE run == seeding.run
  <1>1. run \in 1..Attempts
    BY Now DEF SeedInv
  <1>2. \A step \in SeedSteps(run) : Kept(step, db)
    BY EndKept DEF StepsOf
  <1> HIDE DEF run
  <1>3. \A r \in {<<"policy">>, <<"tenant">>, <<"project">>} : Stored({r}) /\ db[r] = "seed"
    <2>1. /\ Kept(Upsert(<<"policy">>, {}), db) /\ Kept(Upsert(<<"tenant">>, {<<"policy">>}), db)
          /\ Kept(Upsert(<<"project">>, {<<"tenant">>}), db)
      BY <1>2 DEF SeedSteps, CatalogueSteps
    <2> QED BY <2>1, UpsertKept
  <1>4. \A t \in ToSet(Templates) : Stored({<<"template", t>>}) /\ db[<<"template", t>>] = "seed"
    <2>1. \A t \in ToSet(Templates) : Kept(Upsert(<<"template", t>>, {}), db)
      BY <1>2 DEF SeedSteps, CatalogueSteps
    <2> QED BY <2>1, UpsertKept
  <1>5. \A t \in ToSet(ComponentTypes) : Stored({<<"type", t>>}) /\ db[<<"type", t>>] = "seed"
    <2>1. \A t \in ToSet(ComponentTypes) : Kept(Upsert(<<"type", t>>, {}), db)
      BY <1>2 DEF SeedSteps, CatalogueSteps
    <2> QED BY <2>1, UpsertKept
  <1>6. \A c \in ToSet(DemoComponents) : Stored({<<"component", c[1]>>}) /\ db[<<"component", c[1]>>] = "seed"
    <2>1. \A c \in ToSet(DemoComponents) : Kept(Upsert(<<"component", c[1]>>, {<<"project">>, <<"type", c[2]>>}), db)
      BY <1>2 DEF SeedSteps, CatalogueSteps
    <2> QED BY <2>1, UpsertKept
  <1>7. \A kind \in {"checklist", "finding", "action"}, audit \in ToSet(DemoAudits) :
           \A r \in Children(kind, audit) : Stored({r}) /\ db[r] = "seed"
    <2>1. \A kind \in {"checklist", "finding", "action"}, audit \in ToSet(DemoAudits) : Kept(SeedChildren(kind, audit), db)
      BY <1>2 DEF SeedSteps, ChildSteps, ChildKinds
    <2> QED BY <2>1, ChildrenKept
  <1>8. WithSource(ToSet(SeededRules))
    <2>1. ASSUME NEW rule \in ToSet(SeededRules)
          PROVE  Stored({<<"rule", rule>>}) /\ \E source \in Sources(rule) : Sources(rule) \cap DOMAIN db = {source}
      <3>1. PICK set \in ToSet(RuleSets) : rule \in ToSet(set[2])
        BY RulesListed
      <3>2. Kept(SeedRule(rule, set[1], run), db)
        BY <1>2, <3>1 DEF SeedSteps, RuleSteps
      <3> QED BY <1>1, <3>2, RuleKept
    <2> QED BY <2>1 DEF WithSource
  <1>9. \A n \in ToSet(DemoNodes) : Stored({<<"node", n>>})
    <2> TAKE n \in ToSet(DemoNodes)
    <2>1. PICK step : step = CreateNodeWithRevision(n)
      OBVIOUS
    <2>2. Kept(step, db)
      BY <1>2, <2>1 DEF SeedSteps, NodeSteps
    <2>3. NodeShape(step, n)
      BY <2>1, NodeStep
    <2>4. step[1] = S("find", {<<"node", n>>}, {})
      BY <2>3 DEF NodeShape
    <2> QED BY <2>2, <2>4, FoundKept
  <1>10. \A e \in ToSet(DemoEdges) : Stored({<<"edge", e>>, <<"node", e[1]>>, <<"node", e[2]>>})
    <2> TAKE e \in ToSet(DemoEdges)
    <2>1. Kept(Upsert(<<"edge", e>>, {<<"node", e[1]>>, <<"node", e[2]>>}), db)
      BY <1>2 DEF SeedSteps, EdgeSteps, EnsureNodeEdge
    <2>2. Stored({<<"edge", e>>})
      BY <2>1, UpsertKept
    <2>3. Stored({<<"node", e[1]>>}) /\ Stored({<<"node", e[2]>>})
      BY <1>9, DeclaredNodes
    <2> QED BY <2>2, <2>3 DEF Stored
  <1>11. ASSUME NEW n \in ToSet(DemoNodes), n \notin cut PROVE Stored({<<"revision", n>>, <<"current", n>>})
    <2>1. n \notin Unfinished(DOMAIN db)
      BY <1>11 DEF SeedInv, NodesInv, Running
    <2>2. <<"current", n>> \in DOMAIN db
      BY <1>9, <2>1 DEF Unfinished, Stored
    <2>3. <<"revision", n>> \in DOMAIN db
      BY <2>2 DEF SeedInv, RowsInv, RevisionsIn
    <2> QED BY <2>2, <2>3 DEF Stored
  <1>12. \A r \in {<<"policy">>, <<"tenant">>, <<"project">>}
                  \cup {<<"template", t>> : t \in ToSet(Templates)}
                  \cup {<<"type", t>> : t \in ToSet(ComponentTypes)}
                  \cup {<<"component", c[1]>> : c \in ToSet(DemoComponents)}
                  \cup UNION {Children(kind, audit) : kind \in {"checklist", "finding", "action"},
                                                      audit \in ToSet(DemoAudits)} :
            Stored({r}) /\ db[r] = "seed"
    <2> DEFINE Good(r) == Stored({r}) /\ db[r] = "seed"
               first == {<<"policy">>, <<"tenant">>, <<"project">>}
               templates == {<<"template", t>> : t \in ToSet(Templates)}
               types == {<<"type", t>> : t \in ToSet(ComponentTypes)}
               parts == {<<"component", c[1]>> : c \in ToSet(DemoComponents)}
               kinds == {"checklist", "finding", "action"}
               children == UNION {Children(kind, audit) : kind \in kinds, audit \in ToSet(DemoAudits)}
    <2>1. \A r \in first : Good(r)
      BY <1>3
    <2>2. \A r \in templates : Good(r)
      BY <1>4
    <2>3. \A r \in types : Good(r)
      BY <1>5
    <2>4. \A r \in parts : Good(r)
      BY <1>6
    <2>5. \A kind \in kinds, audit \in ToSet(DemoAudits) : \A r \in Children(kind, audit) : Good(r)
      BY <1>7
    <2> HIDE DEF Good, first, templates, types, parts, kinds
    <2>6. \A r \in children : Good(r)
      BY <2>5
    <2> HIDE DEF children
    <2>7. \A r \in first \cup templates \cup types \cup parts \cup children : Good(r)
      BY <2>1, <2>2, <2>3, <2>4, <2>6
    <2> QED BY <2>7 DEF Good, first, templates, types, parts, kinds, children
  <1> QED BY <1>8, <1>9, <1>10, <1>11, <1>12

\* The seed's rows and its run stay well-formed: the step and the statement it is at are ones of
\* its script, however often it breaks off and is run again.
THEOREM SeedTypeCorrect == SSpec => []SeedTypes
  <1>1. SInit => SeedInv
    BY SeedStart
  <1>2. SeedInv /\ [SNext]_seedVars => SeedInv'
    BY SeedStep
  <1>3. SeedInv => SeedTypes
    BY DEF SeedInv
  <1> QED BY <1>1, <1>2, <1>3, PTL DEF SSpec

\* Wherever earlier runs of seed.ts and seed-init.ts broke off, and however often, a run that ends
\* well with no client in between leaves everything that is declared.
THEOREM SeedRunsRepair == SSpec => []SeedingRepairs
  <1>1. SInit => SeedInv
    BY SeedStart
  <1>2. SeedInv /\ [SNext]_seedVars => SeedInv'
    BY SeedStep
  <1>3. SeedInv => SeedingRepairs
    <2> SUFFICES ASSUME SeedInv, seeding.pc = "ended", untouched PROVE SeedingRepairs
      BY DEF SeedingRepairs
    <2>1. seeding.script \in {"seed", "init"}
      BY Now DEF SeedInv
    <2>2. seeding.script = "init" => InitDeclared
      BY InitRepairs DEF InitDeclared
    <2>3. seeding.script = "seed" => SeedDeclared
      BY SeedRepairs DEF SeedDeclared
    <2> QED BY <2>1, <2>2, <2>3 DEF SeedingRepairs
  <1> QED BY <1>1, <1>2, <1>3, PTL DEF SSpec

----------------------------------------------------------------------------
(* The services together: no step of one is seen by another *)

\* The sign-off and the facts share whether clients take turns, which neither changes.
LEMMA SignOffKeepsTurns == Next => turns' = turns
  BY DEF Next, ReadNode, WriteSignature, SigningFails

LEMMA FactsKeepTurns == FactsNext => turns' = turns
  BY DEF FactsNext, CreateProject, UpdateProject, Begin, Write, Answer, WriteFails, Kill, UpsertRow, UpsertFails

\* Each step of the services is a step of each part, or leaves that part as it is.
LEMMA ServicesStep ==
  [ServicesNext]_services => [Next]_vars /\ [FactsNext]_factVars /\ [DocNext]_docVars /\ [SNext]_seedVars
  <1> SUFFICES ASSUME [ServicesNext]_services
               PROVE  [Next]_vars /\ [FactsNext]_factVars /\ [DocNext]_docVars /\ [SNext]_seedVars
    OBVIOUS
  <1>1. CASE OnSignOff /\ Next
    <2>1. UNCHANGED factVars
      BY <1>1, SignOffKeepsTurns DEF OnSignOff, rowVars, factVars
    <2> QED BY <1>1, <2>1 DEF OnSignOff
  <1>2. CASE OnFacts /\ FactsNext
    <2>1. UNCHANGED vars
      BY <1>2, FactsKeepTurns DEF OnFacts, nodeVars, vars
    <2> QED BY <1>2, <2>1 DEF OnFacts
  <1>3. CASE OnDocumentation /\ DocNext
    <2>1. UNCHANGED factVars
      BY <1>3 DEF OnDocumentation, rowVars, factVars, vars
    <2> QED BY <1>3, <2>1 DEF OnDocumentation
  <1>4. CASE OnSeed /\ SNext
    <2>1. UNCHANGED factVars
      BY <1>4 DEF OnSeed, rowVars, factVars, vars
    <2> QED BY <1>4, <2>1 DEF OnSeed
  <1>5. CASE UNCHANGED services
    BY <1>5 DEF services, vars, nodeVars, rowVars, factVars
  <1> QED BY <1>1, <1>2, <1>3, <1>4, <1>5 DEF ServicesNext

\* A behaviour of the services is one of the sign-off, of the facts, of the documentation and of
\* the seed: what is proved of a part holds where the services are put together.
THEOREM ServicesAreParts == ServicesSpec => Spec /\ FactsSpec /\ DocSpec /\ SSpec
  <1>1. ServicesInit => Init /\ FactsInit /\ DocInit /\ SInit
    BY DEF ServicesInit
  <1> QED BY <1>1, ServicesStep, PTL DEF ServicesSpec, Spec, FactsSpec, DocSpec, SSpec

\* Of the services together holds everything that is checked of them on a small instance: sheets
\* signed by three in their order, none taking another's signature away in turns; facts
\* that are as stated once saved and that decide the rules; rows whose files are there and whole, complete answers and repaired trees;
\* and seeded data that is repaired.
THEOREM ServicesKeep ==
  ASSUME ProjectFactsAssumption, RulesAssumption, ProjectDocsAssumption
  PROVE  ServicesSpec =>
           /\ [](CompleteByThree /\ StepsInOrder /\ TurnsKeepOthers)
           /\ [](SavingRepairs /\ TurnsKnowWhatWasStated /\ KnownFactsDecide)
           /\ [](RowsHaveFiles /\ AnswersAreComplete /\ RegenerationRepairs)
           /\ []SeedingRepairs
  <1>1. Spec => [](CompleteByThree /\ StepsInOrder /\ TurnsKeepOthers)
    BY ThreeSigners, NoStepEarly, OthersStay, PTL
  <1>2. FactsSpec => [](SavingRepairs /\ TurnsKnowWhatWasStated /\ KnownFactsDecide)
    BY SavingAgain, TurnsKnown, RulesDecide, PTL
  <1>3. DocSpec => [](RowsHaveFiles /\ AnswersAreComplete /\ RegenerationRepairs)
    BY RowsHaveTheirFiles, TreesComplete, Regenerated, PTL
  <1> QED BY <1>1, <1>2, <1>3, SeedRunsRepair, ServicesAreParts, PTL
=============================================================================
