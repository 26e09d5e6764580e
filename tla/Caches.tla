------------------------------- MODULE Caches -------------------------------
(* The two caches of a server process, on one clock. *)
EXTENDS Retrieval, RuleSetCache

CONSTANT Used   \* which calls are looked at together: a set of sets

ASSUME CachesAssumption == Used \subseteq SUBSET (Fields \cup Indexings \cup Lists)

VARIABLE used   \* the calls that are made, at most

vars == <<now, rvars, svars, used>>

Init == now = 0 /\ RInit /\ SInit /\ used \in Used

\* Time passes, but not over a call that would take longer than calls take.
Tick ==
    /\ now < MaxNow /\ RInTime /\ SInTime
    /\ now' = now + 1
    /\ RPass /\ SPass
    /\ UNCHANGED used

Next ==
    \/ (\E c \in used \cap Fields : FieldStep(c)) /\ UNCHANGED <<svars, used>>
    \/ (\E i \in used \cap Indexings : IndexStep(i)) /\ UNCHANGED <<svars, used>>
    \/ (\E c \in used \cap Lists : ListStep(c)) /\ UNCHANGED <<rvars, used>>
    \/ used \cap Lists # {} /\ ChangeRuleSets /\ UNCHANGED <<rvars, used>>
    \/ Tick

Spec == Init /\ [][Next]_vars

TypeOK == RTypeOK /\ STypeOK /\ used \in Used
=============================================================================
