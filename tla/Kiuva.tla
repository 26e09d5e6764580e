------------------------------- MODULE Kiuva -------------------------------
(***************************************************************************)
(* The Kiuva sign-off of one node (kiuva-workflow.service.ts): execution,  *)
(* verification and approval are signed one after the other by three       *)
(* different users.                                                        *)
(*                                                                         *)
(* signRole reads the node, tests what it read and writes both JSON        *)
(* columns whole, with one entry changed: a read and a write, and anything *)
(* may happen in between.  The two columns are always written together and *)
(* name the same users, so they are one variable here.  Users come from    *)
(* the request's body unchecked: the empty string counts as false, a       *)
(* missing one is undefined, and equals the user of a missing signature.   *)
(*                                                                         *)
(* resetKiuvaSignatures is no action: it writes a plain null to the two    *)
(* nullable JSON columns, which the Prisma client refuses (it asks for     *)
(* DbNull or JsonNull), so that it throws and leaves the sheet as it is.   *)
(***************************************************************************)
EXTENDS Turns

CONSTANTS
    Users,          \* proper user ids
    Empty, Missing, \* what else a body may hold: "", and nothing
    Unsigned,
    Signings        \* the calls of signRole

ASSUME KiuvaAssumption ==
    /\ Empty \notin Users /\ Missing \notin Users \cup {Empty}
    /\ Unsigned \notin Users \cup {Empty, Missing}

VARIABLES
    signature,  \* the columns kiuvaStatus and kiuvaSignatures
    signing     \* the calls of signRole: where they are and what they hold

vars == <<signature, signing, turns>>

KiuvaRole == {"utforelse", "verifikasjon", "godkjenning"}

\* The user of each role's signature.
Sheet   == [KiuvaRole -> Users \cup {Empty, Missing, Unsigned}]
NoSheet == [r \in KiuvaRole |-> Unsigned]

\* result is what the call is about to write, and to answer; nothing is left of it then.
SigningRecord == [pc : {"unused", "write", "ended"}, result : Sheet]
End(s) == signing' = [signing EXCEPT ![s] = [pc |-> "ended", result |-> NoSheet]]

Has(sheet, role) == sheet[role] # Unsigned

\* A status entry that counts as true.
Signed(sheet, role) == sheet[role] \in Users

\* What JavaScript finds under ?.userId.
UserOf(sheet, role) == IF Has(sheet, role) THEN sheet[role] ELSE Missing

\* Broken variant of With: the object is written without the entries it had.
WithAlone(role, user) == [NoSheet EXCEPT ![role] = user]

\* The sheet as it is, but for one role's entry.
With(role, user) == [signature EXCEPT ![role] = user]

\* In turns, no call begins while a call is under way.
Turn == turns => \A s \in Signings : signing[s].pc # "write"

Init ==
    /\ signature = NoSheet
    /\ signing = [s \in Signings |-> [pc |-> "unused", result |-> NoSheet]]
    /\ turns \in TurnModes

----------------------------------------------------------------------------
(* The tests of signRole.  Operators whose comment calls them broken are no part of  *)
(* the specification: each is the slip a change to the code could make, and the      *)
(* properties at the end tell them apart.                                            *)

\* Broken variant of SequentialApproval: approval asks for the first step only.
SequentialApprovalOfFirst(role, sheet) == role # "utforelse" => Signed(sheet, "utforelse")

\* validateSequentialApproval
SequentialApproval(role, sheet) ==
    /\ role = "verifikasjon" => Signed(sheet, "utforelse")
    /\ role = "godkjenning" => Signed(sheet, "verifikasjon")

\* Broken variant of DifferentUsers: only the step before is looked at.
DifferentUsersOfNeighbours(role, user, sheet) ==
    /\ role = "verifikasjon" => UserOf(sheet, "utforelse") # user
    /\ role = "godkjenning" => UserOf(sheet, "verifikasjon") # user

\* validateDifferentUsers
DifferentUsers(role, user, sheet) ==
    \A other \in KiuvaRole \ {role} : UserOf(sheet, other) # user

----------------------------------------------------------------------------

\* signRole up to its update: the node is read and the request refused or prepared.
ReadNode(s, role, user) ==
    /\ signing[s].pc = "unused"
    /\ Turn
    /\ IF SequentialApproval(role, signature) /\ DifferentUsers(role, user, signature)
         THEN signing' = [signing EXCEPT ![s] = [pc |-> "write", result |-> With(role, user)]]
         ELSE End(s)
    /\ UNCHANGED <<signature, turns>>

\* The update: both columns, whole.
WriteSignature(s) ==
    /\ signing[s].pc = "write"
    /\ signature' = signing[s].result
    /\ End(s)
    /\ UNCHANGED turns

\* The update throws, or the process dies before it.
SigningFails(s) ==
    /\ signing[s].pc = "write"
    /\ End(s)
    /\ UNCHANGED <<signature, turns>>

Next ==
    \/ \E s \in Signings :
        \/ \E role \in KiuvaRole, user \in Users \cup {Empty, Missing} : ReadNode(s, role, user)
        \/ WriteSignature(s) \/ SigningFails(s)

Spec == Init /\ [][Next]_vars

----------------------------------------------------------------------------
(* What the code keeps *)

TypeOK ==
    /\ signature \in Sheet
    /\ signing \in [Signings -> SigningRecord]
    /\ turns \in BOOLEAN

\* isKiuvaComplete
Complete == \A role \in KiuvaRole : Signed(signature, role)

\* A sign-off that counts as complete bears three different users, however signatures
\* and renewed signatures overlap: each write replaces the whole sheet by one that
\* was tested as a whole, and never mixes two.
CompleteByThree ==
    Complete => \A p, q \in KiuvaRole : signature[p] = signature[q] => p = q

\* No step has a signature without the ones before it, after any history of overlapping
\* signatures and renewals by empty users.
StepsInOrder ==
    /\ Has(signature, "verifikasjon") => Has(signature, "utforelse")
    /\ Has(signature, "godkjenning") => Has(signature, "verifikasjon")

\* Where calls take turns, nobody's signature is lost or changed by a signature for another
\* role: what a call is about to write differs from the sheet in one entry at most.  (Where
\* they overlap, a call that read the sheet before another one signed takes that away.)
TurnsKeepOthers ==
    turns => \A s \in Signings : signing[s].pc = "write" =>
        \E role \in KiuvaRole : \A other \in KiuvaRole \ {role} :
            signing[s].result[other] = signature[other]

=============================================================================
